---- MODULE Spec2Model ----
(***************************************************************************)
(* Bolometer: the ProfilingConfig reconciler, its pod registry (PodWatcher) *)
(* and the threshold / on-demand monitor goroutines it starts.             *)
(* Time is wall-clock seconds; the clock advances in increments of Step.   *)
(***************************************************************************)
EXTENDS Integers, FiniteSets, Sequences, TLC

\* ---------------------------------------------------------------- bounds
Configs == {"c1", "c2"}
Pods == {"p1", "p2"}
MaxGen == 3
MaxTime == 30
Step == 10
MaxEnv == 1
MaxCapture == 10
MaxProfiles == 2
CadenceHorizon == 80

Gens == 1..MaxGen

\* ------------------------------------------------------ program constants
RequeueAfterSeconds == 30

\* CaptureProfiles: time.After(10 * time.Second) in the wait for readiness.
ReadyTimeoutSeconds == 10

ProfilingEnabledAnnotation == "bolometer.io/enabled"

NoTime == -1
NoKey == ""
NoGen == 0

\* ------------------------------------------------- API objects (inputs)
\* ProfilingConfigSpec: selector, thresholds, on-demand policy, S3 target.
SpecA ==
    [bucket |-> "b", region |-> "r", selNamespace |-> "",
     selLabels |-> {<<"app", "a">>},
     cpuThreshold |-> 80, memThreshold |-> 90,
     checkInterval |-> 10, cooldown |-> 60,
     onDemandSet |-> FALSE, onDemandEnabled |-> FALSE, onDemandInterval |-> 0,
     profileTypes |-> <<>>]

SpecB ==
    [SpecA EXCEPT !.selNamespace = "default", !.selLabels = {},
                  !.onDemandSet = TRUE, !.onDemandEnabled = TRUE,
                  !.onDemandInterval = 30]

\* Two valid specs, one without a bucket and one without a region.
ConfigSpecs == {SpecA, SpecB, [SpecA EXCEPT !.bucket = ""],
                [SpecB EXCEPT !.region = ""]}

ZeroStatus == [activePods |-> 0, totalProfiles |-> 0, totalUploads |-> 0,
               lastProfileTime |-> NoTime]

AbsentConfig == [exists |-> FALSE, spec |-> SpecA, status |-> ZeroStatus]

Present(s) == [exists |-> TRUE, spec |-> s, status |-> ZeroStatus]

ConfigNamespace(c) == "default"

\* Pods of the cluster: labels, phase and annotations.
PodNamespace(p) == "default"

PodA == [exists |-> TRUE, labels |-> {<<"app", "a">>}, phase |-> "Running",
         annotations |-> {<<ProfilingEnabledAnnotation, "true">>}]

PodB == [PodA EXCEPT !.labels = {<<"app", "b">>}]

PodOptOut == [PodA EXCEPT !.annotations = {<<ProfilingEnabledAnnotation, "false">>}]

PodGone == [PodA EXCEPT !.exists = FALSE]

PodStates == {PodA, PodB, [PodA EXCEPT !.phase = "Pending"], PodOptOut, PodGone}

\* Samples the metrics API can return for a pod: CPU and memory in percent
\* of the summed requests.
MetricSamples == {[cpu |-> 85, mem |-> 10], [cpu |-> 80, mem |-> 90]}

VARIABLES
    now,              \* wall clock, seconds
    configs,          \* API server: ProfilingConfig objects by key
    pods,             \* API server: pods by key
    queue,            \* work queue of the controller: keys to reconcile
    requeueAt,        \* per key: time of the RequeueAfter timer, or NoTime
    lastResult,       \* per key: what the latest Reconcile returned
    trackedPods,      \* PodWatcher.trackedPods: pod key -> owning config key
    lastProfileTime,  \* PodWatcher.lastProfileTime: pod key -> time
    activeMonitors,   \* reconciler.activeMonitors: config key -> cancel handle
    monitors,         \* the monitor generations (context + two goroutines)
    lastSuccess,      \* history: last successful threshold capture per (pod, config)
    envChanges,       \* number of cluster changes and API failures so far
    cycles,           \* history, per config: runs of checkPodsThresholds and
                      \* on-demand calls of captureAndUpload
    calls,            \* one captureAndUpload call per monitor, step by step
    resourceVersion,  \* API server: resourceVersion of the ProfilingConfig
    mu,               \* PodWatcher.mu: the writer holding it and the readers
    procs,            \* goroutines calling the PodWatcher concurrently
    probe             \* the latest call of a function: inputs and outputs

vars == <<now, configs, pods, queue, requeueAt, lastResult, trackedPods,
          lastProfileTime, activeMonitors, monitors, lastSuccess, envChanges,
          cycles, calls, resourceVersion, mu, procs, probe>>

\* The variables of the statement-by-statement view of the PodWatcher's
\* methods under its RWMutex.
registryVars == <<mu, procs>>

\* The variables of the step-by-step views of captureAndUpload and of the
\* PodWatcher.
auxVars == <<calls, resourceVersion, registryVars, probe>>

\* A goroutine of a monitor generation.
\*   pc: "none" (never started), "wait" (blocked in select), "capture" (inside
\*   captureAndUpload for pod cur, with the pods todo of the snapshot still to
\*   come, since the time `since`), "blocked" (inside setupPortForward,
\*   receiving from a readyChan nobody will close), "returned".
NoGoroutine == [pc |-> "none", next |-> 0, todo |-> {}, cur |-> NoKey, since |-> 0]

FreeSlot == [key |-> NoKey, spec |-> SpecA, cancelled |-> FALSE,
             thr |-> NoGoroutine, od |-> NoGoroutine]

NoResult == [ran |-> FALSE, err |-> "", requeueAfter |-> 0]

NoCycles == [checks |-> 0, onDemand |-> 0]

\* Goroutines that call the PodWatcher at the same time (the reconciler's
\* workers and the monitors), and the state of its sync.RWMutex.
Procs == {"g1", "g2", "g3"}

NoProc == ""

FreeMutex == [writer |-> NoProc, readers |-> {}]

\* A call of a PodWatcher method by a goroutine.
\*   op: the method and its arguments; pc: "idle", "start" (before Lock/RLock),
\*   "locked", "delete" (before stopTrackingLocked), "store" (before the map
\*   assignment of TrackPod), "iterate" (in the range loop of GetTrackedPods),
\*   "unlock" (before the deferred Unlock/RUnlock), "done";
\*   todo: keys the range loop has still to visit; slice: the slice being
\*   built; result: what the method returned.
NoOp == [name |-> "none", pod |-> NoKey, config |-> NoKey]

NoReturn == "void"

\* No function has been called yet.
NoProbe == [fn |-> "none", in |-> <<>>, out |-> <<>>]

IdleProc == [op |-> NoOp, pc |-> "idle", todo |-> {}, slice |-> {},
             result |-> NoReturn]

\* The callers of captureAndUpload and of the status writes: the two monitors
\* of a config, and Reconcile.
Callers == {"threshold", "on-demand"}

Writers == Callers \cup {"reconcile"}

\* A call of captureAndUpload and what its caller does with the result.
\*   pc: "idle", "forward" (setupPortForward), "blocked" (in the receive from
\*   readyChan of setupPortForward, for good), "select" (the select of
\*   CaptureProfiles), "fetch" (the loop of
\*   CaptureProfiles), "uploader" (NewS3Uploader), "upload" (the loop of
\*   UploadProfiles), "return" (back in the monitor), "stats" (between the Get
\*   and the Status().Update of a status write), "done".
\*   kinds: still to fetch; profiles: acquired; toPut: still to upload;
\*   uploaded: the PUTs issued. getFailed, putFailed, marked
\*   (UpdateLastProfileTime called), counted (counters written) and late (the
\*   monitor's context was already cancelled when the tick began) are history.
\*   tunnel: fw.ForwardPorts() was started; closes: how many times the
\*   tunnel's stopChan was closed.
IdleCall == [pc |-> "idle", reason |-> "", kinds |-> <<>>, profiles |-> <<>>,
             toPut |-> <<>>, uploaded |-> <<>>, err |-> "",
             getFailed |-> FALSE, putFailed |-> FALSE,
             latest |-> ZeroStatus, rv |-> 0,
             marked |-> FALSE, counted |-> FALSE, late |-> FALSE,
             tunnel |-> FALSE, closes |-> 0]

Init ==
    /\ now = 0
    /\ \/ /\ configs \in {[c1 |-> Present(s), c2 |-> AbsentConfig] : s \in ConfigSpecs}
          /\ pods \in {[p1 |-> PodA, p2 |-> x] : x \in {PodA, PodB}}
       \/ /\ configs = [c1 |-> Present(SpecA), c2 |-> Present(SpecB)]
          /\ pods = [p1 |-> PodA, p2 |-> PodGone]
    /\ queue = {c \in Configs : configs[c].exists}
    /\ requeueAt = [c \in Configs |-> NoTime]
    /\ lastResult = [c \in Configs |-> NoResult]
    /\ trackedPods = [p \in Pods |-> NoKey]
    /\ lastProfileTime = [p \in Pods |-> NoTime]
    /\ activeMonitors = [c \in Configs |-> NoGen]
    /\ monitors = [g \in Gens |-> FreeSlot]
    /\ lastSuccess = [pc \in Pods \X Configs |-> NoTime]
    /\ envChanges = 0
    /\ cycles = [c \in Configs |-> NoCycles]
    /\ calls = [w \in Writers |-> IdleCall]
    /\ resourceVersion = 1
    /\ mu = FreeMutex
    /\ procs = [pr \in Procs |-> IdleProc]
    /\ probe = NoProbe

\* ------------------------------------------------------------ PodWatcher
\* The registry is the pair of maps [tracked, lpt] guarded by PodWatcher.mu;
\* every operation below runs under the lock and is therefore atomic.
Registry(tracked, lpt) == [tracked |-> tracked, lpt |-> lpt]

\* Variant that accepts the annotation whatever its value.
isPodProfilingEnabledAnyValue(pod) ==
    \E a \in pod.annotations : a[1] = ProfilingEnabledAnnotation

isPodProfilingEnabled(pod) ==
    \E a \in pod.annotations : a[1] = ProfilingEnabledAnnotation /\ a[2] = "true"

\* Variant that does not look at the phase.
ListMatchingPodsAnyPhase(podMap, c, spec) ==
    LET namespace == IF spec.selNamespace = "" THEN ConfigNamespace(c)
                     ELSE spec.selNamespace
    IN  {p \in Pods :
            /\ podMap[p].exists
            /\ PodNamespace(p) = namespace
            /\ spec.selLabels \subseteq podMap[p].labels
            /\ isPodProfilingEnabled(podMap[p])}

ListMatchingPods(podMap, c, spec) ==
    LET namespace == IF spec.selNamespace = "" THEN ConfigNamespace(c)
                     ELSE spec.selNamespace
    IN  {p \in Pods :
            /\ podMap[p].exists
            /\ PodNamespace(p) = namespace
            /\ spec.selLabels \subseteq podMap[p].labels
            /\ isPodProfilingEnabled(podMap[p])
            /\ podMap[p].phase = "Running"}

stopTrackingLocked(reg, key) ==
    [tracked |-> [reg.tracked EXCEPT ![key] = NoKey],
     lpt |-> [reg.lpt EXCEPT ![key] = NoTime]]

\* Variant that leaves an existing entry as it is.
TrackPodKeepExisting(reg, p, c) ==
    IF reg.tracked[p] # NoKey THEN reg ELSE [reg EXCEPT !.tracked[p] = c]

TrackPod(reg, p, c) ==
    LET cleared == IF reg.tracked[p] # NoKey THEN stopTrackingLocked(reg, p)
                   ELSE reg
    IN  [cleared EXCEPT !.tracked[p] = c]

GetTrackedPods(tracked) == {p \in Pods : tracked[p] # NoKey}

\* Variant that lets a pod through as soon as the cooldown has elapsed.
CanProfileAtCooldown(lpt, p, cooldownSeconds, t) ==
    IF lpt[p] = NoTime THEN TRUE ELSE t - lpt[p] >= cooldownSeconds

CanProfile(lpt, p, cooldownSeconds, t) ==
    IF lpt[p] = NoTime THEN TRUE ELSE t - lpt[p] > cooldownSeconds

UpdateLastProfileTime(lpt, p, t) == [lpt EXCEPT ![p] = t]

GetActivePodCount(tracked) == Cardinality(GetTrackedPods(tracked))

\* ------------------------------------------------------ metrics.Collector
\* fmt.Sprintf("%s usage %.2f%% exceeds threshold %d%%", ...) for the whole
\* percentages of the model.
ExceedsMessage(what, percent, threshold) ==
    what \o " usage " \o ToString(percent) \o ".00% exceeds threshold "
         \o ToString(threshold) \o "%"

\* Variant that looks at the memory first.
CheckThresholdsMemoryFirst(m, cpuThreshold, memoryThreshold) ==
    IF m.mem > memoryThreshold
    THEN [exceeded |-> TRUE,
          reason |-> ExceedsMessage("Memory", m.mem, memoryThreshold)]
    ELSE IF m.cpu > cpuThreshold
    THEN [exceeded |-> TRUE, reason |-> ExceedsMessage("CPU", m.cpu, cpuThreshold)]
    ELSE [exceeded |-> FALSE, reason |-> ""]

CheckThresholds(m, cpuThreshold, memoryThreshold) ==
    IF m.cpu > cpuThreshold
    THEN [exceeded |-> TRUE, reason |-> ExceedsMessage("CPU", m.cpu, cpuThreshold)]
    ELSE IF m.mem > memoryThreshold
    THEN [exceeded |-> TRUE,
          reason |-> ExceedsMessage("Memory", m.mem, memoryThreshold)]
    ELSE [exceeded |-> FALSE, reason |-> ""]

\* ------------------------------------------------------------ reconciler
\* Variant that forgets the region check.
validateConfigBucketOnly(spec) ==
    IF spec.bucket = "" THEN "s3 bucket is required" ELSE ""

validateConfig(spec) ==
    IF spec.bucket = "" THEN "s3 bucket is required"
    ELSE IF spec.region = "" THEN "s3 region is required"
    ELSE ""

\* The loop "for _, pod := range pods { TrackPod(pod, config) }".
RECURSIVE TrackAll(_, _, _)
TrackAll(reg, S, c) ==
    IF S = {} THEN reg
    ELSE LET p == CHOOSE x \in S : TRUE
         IN  TrackAll(TrackPod(reg, p, c), S \ {p}, c)

MonitorState(am, mons) == [am |-> am, mons |-> mons]

\* A cancelled generation whose goroutines have all returned is gone.
Collect(m) ==
    IF m.cancelled /\ m.thr.pc = "returned" /\ m.od.pc \in {"none", "returned"}
    THEN FreeSlot ELSE m

\* cancel(): a goroutine blocked in select with no tick pending has only
\* ctx.Done() to receive and returns; any other goroutine of the generation
\* goes on until it next reaches its select.
Cancelled(m) ==
    LET woken(gr) == IF gr.pc = "wait" /\ gr.next > now
                     THEN [gr EXCEPT !.pc = "returned"] ELSE gr
    IN  Collect([m EXCEPT !.cancelled = TRUE, !.thr = woken(@), !.od = woken(@)])

\* Variant that deletes the handle without calling cancel().
stopMonitoringNoCancel(ms, configKey) ==
    IF ms.am[configKey] # NoGen
    THEN [am |-> [ms.am EXCEPT ![configKey] = NoGen], mons |-> ms.mons]
    ELSE ms

stopMonitoring(ms, configKey) ==
    IF ms.am[configKey] # NoGen
    THEN [am |-> [ms.am EXCEPT ![configKey] = NoGen],
          mons |-> [ms.mons EXCEPT ![ms.am[configKey]] = Cancelled(@)]]
    ELSE ms

FreeGens(mons) == {g \in Gens : mons[g].key = NoKey}

onDemandOn(spec) == spec.onDemandSet /\ spec.onDemandEnabled

\* Both goroutines create their ticker when they start, at time t.
startMonitoring(ms, c, spec, t) ==
    LET g == CHOOSE x \in FreeGens(ms.mons) : \A y \in FreeGens(ms.mons) : x <= y
    IN  [am |-> [ms.am EXCEPT ![c] = g],
         mons |-> [ms.mons EXCEPT ![g] =
            [key |-> c, spec |-> spec, cancelled |-> FALSE,
             thr |-> [pc |-> "wait", next |-> t + spec.checkInterval,
                      todo |-> {}, cur |-> NoKey, since |-> 0],
             od |-> IF onDemandOn(spec)
                    THEN [pc |-> "wait", next |-> t + spec.onDemandInterval,
                          todo |-> {}, cur |-> NoKey, since |-> 0]
                    ELSE NoGoroutine]]]

\* updateProfileStats: re-fetch the object, bump the counters, write status.
ProfileStats(status, t) ==
    [status EXCEPT !.lastProfileTime = t,
                   !.totalProfiles = @ + 1,
                   !.totalUploads = @ + 1]

updateProfileStats(cfgs, c, t) ==
    IF ~cfgs[c].exists THEN cfgs
    ELSE [cfgs EXCEPT ![c].status = ProfileStats(@, t)]

\* A RequeueAfter timer that has not fired yet stays in the delaying queue.
PendingTimer(c) ==
    IF requeueAt[c] # NoTime /\ requeueAt[c] > now THEN requeueAt[c] ELSE NoTime

Result(err, after) == [ran |-> TRUE, err |-> err, requeueAfter |-> after]

\* Variant that returns on NotFound without tearing the monitors down.
ReconcileNotFoundNoStop(c) ==
    /\ ~configs[c].exists
    /\ lastResult' = [lastResult EXCEPT ![c] = Result("", 0)]
    /\ requeueAt' = [requeueAt EXCEPT ![c] = PendingTimer(c)]
    /\ queue' = queue \ {c}
    /\ UNCHANGED <<configs, trackedPods, lastProfileTime, activeMonitors, monitors>>

\* Reconcile, lines 76-84: the object is gone.
ReconcileNotFound(c) ==
    LET ms == stopMonitoring(MonitorState(activeMonitors, monitors), c)
    IN  /\ ~configs[c].exists
        /\ activeMonitors' = ms.am
        /\ monitors' = ms.mons
        /\ lastResult' = [lastResult EXCEPT ![c] = Result("", 0)]
        /\ requeueAt' = [requeueAt EXCEPT ![c] = PendingTimer(c)]
        /\ queue' = queue \ {c}
        /\ UNCHANGED <<configs, trackedPods, lastProfileTime>>

\* Reconcile returning an error before anything was changed: Get failed,
\* validation failed, or listing the pods failed. The work queue retries a
\* failed request after a back-off: the request of an API failure stays
\* queued; the retry of a failed validation changes nothing until the object
\* is changed, and that change queues the key itself.
ReconcileError(c, api) ==
    LET v == validateConfig(configs[c].spec)
        apiFailed == api = "getErr" \/ v = ""
        err == IF apiFailed THEN "api error" ELSE v
    IN  /\ api = "getErr" \/ (configs[c].exists /\ (v # "" \/ api = "listErr"))
        /\ lastResult' = [lastResult EXCEPT ![c] = Result(err, 0)]
        /\ requeueAt' = [requeueAt EXCEPT ![c] = PendingTimer(c)]
        /\ queue' = IF apiFailed THEN queue \cup {c} ELSE queue \ {c}
        /\ UNCHANGED <<configs, trackedPods, lastProfileTime, activeMonitors,
                       monitors>>

\* Reconcile, lines 92-117: list, track, write status, restart the monitors.
ReconcileOk(c, api) ==
    LET spec == configs[c].spec
        matched == ListMatchingPods(pods, c, spec)
        reg == TrackAll(Registry(trackedPods, lastProfileTime), matched, c)
        cfgs == IF api = "statusErr" THEN configs
                ELSE [configs EXCEPT ![c].status.activePods = Cardinality(matched)]
        stopped == stopMonitoring(MonitorState(activeMonitors, monitors), c)
        ms == startMonitoring(stopped, c, spec, now)
        pending == PendingTimer(c)
    IN  /\ api \in {"ok", "statusErr"}
        /\ configs[c].exists
        /\ validateConfig(spec) = ""
        /\ FreeGens(stopped.mons) # {}
        /\ trackedPods' = reg.tracked
        /\ lastProfileTime' = reg.lpt
        /\ configs' = cfgs
        /\ activeMonitors' = ms.am
        /\ monitors' = ms.mons
        /\ lastResult' = [lastResult EXCEPT ![c] = Result("", RequeueAfterSeconds)]
        /\ requeueAt' = [requeueAt EXCEPT ![c] =
                            IF pending # NoTime THEN pending
                            ELSE now + RequeueAfterSeconds]
        /\ queue' = queue \ {c}

Due(c) == c \in queue \/ (requeueAt[c] # NoTime /\ requeueAt[c] <= now)

Reconcile(c) ==
    /\ Due(c)
    /\ \E api \in {"ok", "getErr", "listErr", "statusErr"} :
          /\ api # "ok" => envChanges < MaxEnv
          /\ envChanges' = IF api = "ok" THEN envChanges ELSE envChanges + 1
          /\ \/ (api = "ok" /\ ReconcileNotFound(c))
             \/ ReconcileError(c, api)
             \/ ReconcileOk(c, api)
    /\ UNCHANGED <<now, pods, lastSuccess, cycles, auxVars>>


\* --------------------------------------------------------------- monitors
\* A goroutine takes a step between two blocking waits: from its select to the
\* next call of captureAndUpload (or back to select), and from the return of
\* captureAndUpload to the next call (or back to select).
Live(g) == monitors[g].key # NoKey

\* time.Ticker: the channel buffers one tick and drops the others, so after a
\* receive at time t the next tick is the first multiple of the interval after t.
NextTick(next, interval, t) == next + interval * (((t - next) \div interval) + 1)

Waiting(gr) == [gr EXCEPT !.pc = "wait", !.todo = {}, !.cur = NoKey, !.since = 0]

Capturing(gr, p, rest) ==
    [gr EXCEPT !.pc = "capture", !.todo = rest, !.cur = p, !.since = now]

\* History: the on-demand monitor of config c has gone on to goroutine state
\* `to`; a call of captureAndUpload counts.
OnDemandCalled(c, to) ==
    IF to.pc = "capture" THEN [cycles EXCEPT ![c].onDemand = @ + 1] ELSE cycles

MonitorFrame == UNCHANGED <<now, pods, queue, requeueAt, lastResult, trackedPods,
                            activeMonitors, envChanges, auxVars>>

\* The body of the loop in checkPodsThresholds up to the call of
\* captureAndUpload: does it reach the call for pod p, given the answer of the
\* metrics API (a sample, or an error)?
ThresholdWantsCapture(g, p, metricsOk, sample) ==
    LET spec == monitors[g].spec
    IN  /\ CanProfile(lastProfileTime, p, spec.cooldown, now)
        /\ metricsOk
        /\ CheckThresholds(sample, spec.cpuThreshold, spec.memThreshold).exceeded

\* A metrics request on a cancelled context or for a pod that is gone fails.
MetricsCanSucceed(g, p) == ~monitors[g].cancelled /\ pods[p].exists

\* The loop of checkPodsThresholds over the pods `todo` of its snapshot, in
\* the order of the map iteration: every way it can go on, either to a call
\* of captureAndUpload for some pod p (the pods before p were skipped, the
\* pods in `rest` are still to come) or to the end of the loop.
ThresholdLoop(g, gr, todo) ==
    {Waiting(gr)} \cup
    {Capturing(gr, p, rest) :
        <<p, rest>> \in
            {pr \in todo \X SUBSET todo :
                /\ pr[1] \notin pr[2]
                /\ \E metricsOk \in BOOLEAN, sample \in MetricSamples :
                      /\ metricsOk => MetricsCanSucceed(g, pr[1])
                      /\ ThresholdWantsCapture(g, pr[1], metricsOk, sample)}}

\* Variant that skips the pods inside their cooldown.
OnDemandLoopCooldown(g, gr, todo) ==
    LET can == {p \in todo :
                  CanProfile(lastProfileTime, p, monitors[g].spec.cooldown, now)}
    IN  IF can = {} THEN {Waiting(gr)}
        ELSE {Capturing(gr, p, can \ {p}) : p \in can}

\* The loop of monitorOnDemand: captureAndUpload for every pod of the snapshot.
OnDemandLoop(g, gr, todo) ==
    IF todo = {} THEN {Waiting(gr)}
    ELSE {Capturing(gr, p, todo \ {p}) : p \in todo}

\* monitorThresholds: case <-ctx.Done()
ThresholdReturn(g) ==
    /\ Live(g) /\ monitors[g].cancelled /\ monitors[g].thr.pc = "wait"
    /\ monitors' = [monitors EXCEPT ![g] = Collect([@ EXCEPT !.thr.pc = "returned"])]
    /\ MonitorFrame
    /\ UNCHANGED <<configs, lastProfileTime, lastSuccess, cycles>>

\* monitorThresholds: case <-ticker.C; checkPodsThresholds takes its snapshot
\* and runs its loop. select picks any ready case, so a cancelled monitor may
\* still take a tick.
ThresholdTick(g) ==
    LET gr == monitors[g].thr
        ticked == [gr EXCEPT !.next =
                      NextTick(gr.next, monitors[g].spec.checkInterval, now)]
    IN  /\ Live(g) /\ gr.pc = "wait" /\ gr.next <= now
        /\ \E to \in ThresholdLoop(g, ticked, GetTrackedPods(trackedPods)) :
              monitors' = [monitors EXCEPT ![g].thr = to]
        \* History: one more run of checkPodsThresholds for the config.
        /\ cycles' = [cycles EXCEPT ![monitors[g].key].checks = @ + 1]
        /\ MonitorFrame
        /\ UNCHANGED <<configs, lastProfileTime, lastSuccess>>

\* captureAndUpload succeeds only on a live context and a running pod.
CaptureCanSucceed(g, p) ==
    ~monitors[g].cancelled /\ pods[p].exists /\ pods[p].phase = "Running"

\* The model follows a config up to MaxProfiles successful captures.
WithinProfiles(c) == configs[c].status.totalProfiles < MaxProfiles

\* captureAndUpload returns to checkPodsThresholds (lines 189-194), which
\* goes on with its loop.
ThresholdCaptureEnd(g, ok) ==
    LET gr == monitors[g].thr
        p == gr.cur
        c == monitors[g].key
    IN  /\ Live(g) /\ gr.pc = "capture"
        /\ ok => (CaptureCanSucceed(g, p) /\ WithinProfiles(c))
        /\ lastProfileTime' = IF ok THEN UpdateLastProfileTime(lastProfileTime, p, now)
                              ELSE lastProfileTime
        /\ lastSuccess' = IF ok THEN [lastSuccess EXCEPT ![<<p, c>>] = now]
                          ELSE lastSuccess
        /\ configs' = IF ok THEN updateProfileStats(configs, c, now) ELSE configs
        /\ \E to \in ThresholdLoop(g, gr, gr.todo) :
              monitors' = [monitors EXCEPT ![g].thr = to]
        /\ MonitorFrame
        /\ UNCHANGED cycles

\* setupPortForward receives from readyChan with no timeout and no case for
\* ctx.Done(); ForwardPorts closes the channel only once it listens, so when
\* the dial to the pod fails the caller stays in that receive.
PortForwardCannotStart(p) == ~pods[p].exists \/ pods[p].phase # "Running"

ThresholdCaptureHang(g) ==
    /\ Live(g) /\ monitors[g].thr.pc = "capture"
    /\ PortForwardCannotStart(monitors[g].thr.cur)
    /\ monitors' = [monitors EXCEPT ![g].thr.pc = "blocked"]
    /\ MonitorFrame
    /\ UNCHANGED <<configs, lastProfileTime, lastSuccess, cycles>>

OnDemandCaptureHang(g) ==
    /\ Live(g) /\ monitors[g].od.pc = "capture"
    /\ PortForwardCannotStart(monitors[g].od.cur)
    /\ monitors' = [monitors EXCEPT ![g].od.pc = "blocked"]
    /\ MonitorFrame
    /\ UNCHANGED <<configs, lastProfileTime, lastSuccess, cycles>>

\* monitorOnDemand: case <-ctx.Done()
OnDemandReturn(g) ==
    /\ Live(g) /\ monitors[g].cancelled /\ monitors[g].od.pc = "wait"
    /\ monitors' = [monitors EXCEPT ![g] = Collect([@ EXCEPT !.od.pc = "returned"])]
    /\ MonitorFrame
    /\ UNCHANGED <<configs, lastProfileTime, lastSuccess, cycles>>

\* monitorOnDemand: case <-ticker.C; snapshot of the tracked pods, then the loop.
OnDemandTick(g) ==
    LET gr == monitors[g].od
        ticked == [gr EXCEPT !.next =
                      NextTick(gr.next, monitors[g].spec.onDemandInterval, now)]
    IN  /\ Live(g) /\ gr.pc = "wait" /\ gr.next <= now
        /\ \E to \in OnDemandLoop(g, ticked, GetTrackedPods(trackedPods)) :
              /\ monitors' = [monitors EXCEPT ![g].od = to]
              /\ cycles' = OnDemandCalled(monitors[g].key, to)
        /\ MonitorFrame
        /\ UNCHANGED <<configs, lastProfileTime, lastSuccess>>

\* captureAndUpload returns to monitorOnDemand (lines 215-219), which goes on
\* with its loop.
OnDemandCaptureEnd(g, ok) ==
    LET gr == monitors[g].od
        p == gr.cur
        c == monitors[g].key
    IN  /\ Live(g) /\ gr.pc = "capture"
        /\ ok => (CaptureCanSucceed(g, p) /\ WithinProfiles(c))
        /\ configs' = IF ok THEN updateProfileStats(configs, c, now) ELSE configs
        /\ \E to \in OnDemandLoop(g, gr, gr.todo) :
              /\ monitors' = [monitors EXCEPT ![g].od = to]
              /\ cycles' = OnDemandCalled(c, to)
        /\ MonitorFrame
        /\ UNCHANGED <<lastProfileTime, lastSuccess>>

\* ------------------------------------------------------------ environment
EnvFrame == UNCHANGED <<now, requeueAt, lastResult, trackedPods, lastProfileTime,
                        activeMonitors, monitors, lastSuccess, cycles, auxVars>>

\* kubectl apply: the spec of an existing ProfilingConfig is replaced.
ConfigUpdate(c, s) ==
    /\ envChanges < MaxEnv
    /\ configs[c].exists /\ configs[c].spec # s
    /\ configs' = [configs EXCEPT ![c].spec = s]
    /\ queue' = queue \cup {c}
    /\ envChanges' = envChanges + 1
    /\ UNCHANGED pods
    /\ EnvFrame

\* kubectl delete
ConfigDelete(c) ==
    /\ envChanges < MaxEnv
    /\ configs[c].exists
    /\ configs' = [configs EXCEPT ![c] = AbsentConfig]
    /\ queue' = queue \cup {c}
    /\ envChanges' = envChanges + 1
    /\ UNCHANGED pods
    /\ EnvFrame

\* A pod is deleted, relabelled, changes phase or loses its annotation.
\* Pods are not watched by the controller.
PodChange(p, ps) ==
    /\ envChanges < MaxEnv
    /\ pods[p].exists /\ pods[p] # ps
    /\ pods' = [pods EXCEPT ![p] = ps]
    /\ envChanges' = envChanges + 1
    /\ UNCHANGED <<configs, queue>>
    /\ EnvFrame

\* The clock advances when nothing is ready to run: no request is queued, no
\* timer is due, no goroutine can leave its select. A capture in
\* flight (port-forward, pprof GETs, PUTs) takes time, at most MaxCapture.
Busy(gr, cancelled) ==
    \/ gr.pc = "wait" /\ (cancelled \/ gr.next <= now)
    \/ gr.pc = "capture" /\ now + Step > gr.since + MaxCapture

AdvanceTo(limit) ==
    /\ now + Step <= limit
    /\ \A c \in Configs : ~Due(c)
    /\ \A g \in Gens : Live(g) =>
          /\ ~Busy(monitors[g].thr, monitors[g].cancelled)
          /\ ~Busy(monitors[g].od, monitors[g].cancelled)
    /\ now' = now + Step
    /\ UNCHANGED <<configs, pods, queue, requeueAt, lastResult, trackedPods,
                   lastProfileTime, activeMonitors, monitors, lastSuccess,
                   envChanges, cycles, auxVars>>

Advance == AdvanceTo(MaxTime)

Next ==
    \/ \E c \in Configs : Reconcile(c)
    \/ \E g \in Gens : ThresholdReturn(g)
    \/ \E g \in Gens : ThresholdTick(g)
    \/ \E g \in Gens, ok \in BOOLEAN : ThresholdCaptureEnd(g, ok)
    \/ \E g \in Gens : OnDemandReturn(g)
    \/ \E g \in Gens : OnDemandTick(g)
    \/ \E g \in Gens, ok \in BOOLEAN : OnDemandCaptureEnd(g, ok)
    \/ \E g \in Gens : ThresholdCaptureHang(g)
    \/ \E g \in Gens : OnDemandCaptureHang(g)
    \/ \E c \in Configs, s \in ConfigSpecs : ConfigUpdate(c, s)
    \/ \E c \in Configs : ConfigDelete(c)
    \/ \E p \in Pods, ps \in PodStates : PodChange(p, ps)
    \/ Advance

Spec == Init /\ [][Next]_vars

\* ---------------------------------------------- the periodic schedule alone
\* One config, one running pod, no change of the cluster and no API failure:
\* the controller reconciles on creation and then on every RequeueAfter timer.
CadenceInit ==
    /\ now = 0
    /\ configs \in {[c1 |-> Present(s), c2 |-> AbsentConfig] :
                       s \in {SpecB, [SpecB EXCEPT !.checkInterval = 40,
                                                   !.onDemandInterval = 35]}}
    /\ pods = [p1 |-> PodA, p2 |-> PodGone]
    /\ queue = {c \in Configs : configs[c].exists}
    /\ requeueAt = [c \in Configs |-> NoTime]
    /\ lastResult = [c \in Configs |-> NoResult]
    /\ trackedPods = [p \in Pods |-> NoKey]
    /\ lastProfileTime = [p \in Pods |-> NoTime]
    /\ activeMonitors = [c \in Configs |-> NoGen]
    /\ monitors = [g \in Gens |-> FreeSlot]
    /\ lastSuccess = [pc \in Pods \X Configs |-> NoTime]
    /\ envChanges = MaxEnv
    /\ cycles = [c \in Configs |-> NoCycles]
    /\ calls = [w \in Writers |-> IdleCall]
    /\ resourceVersion = 1
    /\ mu = FreeMutex
    /\ procs = [pr \in Procs |-> IdleProc]
    /\ probe = NoProbe

CadenceNext ==
    \/ \E c \in Configs : Reconcile(c)
    \/ \E g \in Gens : ThresholdReturn(g)
    \/ \E g \in Gens : ThresholdTick(g)
    \/ \E g \in Gens, ok \in BOOLEAN : ThresholdCaptureEnd(g, ok)
    \/ \E g \in Gens : OnDemandReturn(g)
    \/ \E g \in Gens : OnDemandTick(g)
    \/ \E g \in Gens, ok \in BOOLEAN : OnDemandCaptureEnd(g, ok)
    \/ AdvanceTo(CadenceHorizon)

CadenceSpec == CadenceInit /\ [][CadenceNext]_vars

\* ------------------------------------------- captureAndUpload, step by step
\* The threshold monitor and the on-demand monitor of config CaptureConfig each
\* make one call of captureAndUpload for pod CapturePod, while Reconcile writes
\* the status of the same object.
CaptureConfig == "c1"

CapturePod == "p1"

HTTPStatusOK == 200

SpecTwoKinds == [SpecB EXCEPT !.profileTypes = <<"cpu", "heap">>]

CaptureInit ==
    /\ now = 0
    /\ configs \in {[c1 |-> Present(s), c2 |-> AbsentConfig] : s \in {SpecB, SpecTwoKinds}}
    /\ pods = [p1 |-> PodA, p2 |-> PodGone]
    /\ queue = {}
    /\ requeueAt = [c \in Configs |-> NoTime]
    /\ lastResult = [c \in Configs |-> NoResult]
    /\ trackedPods = [p \in Pods |-> IF p = CapturePod THEN CaptureConfig ELSE NoKey]
    /\ lastProfileTime = [p \in Pods |-> NoTime]
    /\ activeMonitors = [c \in Configs |-> NoGen]
    /\ monitors = [g \in Gens |-> FreeSlot]
    /\ lastSuccess = [pc \in Pods \X Configs |-> NoTime]
    /\ envChanges = 0
    /\ cycles = [c \in Configs |-> NoCycles]
    /\ calls = [w \in Writers |-> IdleCall]
    /\ resourceVersion = 1
    /\ mu = FreeMutex
    /\ procs = [pr \in Procs |-> IdleProc]
    /\ probe = NoProbe

CaptureFrame == UNCHANGED <<now, pods, queue, requeueAt, lastResult, trackedPods,
                            activeMonitors, monitors, lastSuccess, envChanges,
                            cycles, registryVars, probe>>

\* The monitor generation whose goroutines make the calls, and its context.
CaptureGen == 1

CtxDone == monitors[CaptureGen].cancelled

\* Variant in which a request goes through on a cancelled context.
CtxIgnored(done, ok) == TRUE

\* A request that is handed the context (metrics Get, pprof GET, PutObject,
\* Status().Update) fails once the context is cancelled.
CtxAllows(done, ok) == done => ~ok

\* Variant that walks the list of kinds from its end.
ProfileTypesOfReversed(spec) ==
    LET types == IF Len(spec.profileTypes) = 0
                 THEN <<"heap", "cpu", "goroutine", "mutex">>
                 ELSE spec.profileTypes
    IN  [i \in 1..Len(types) |-> types[Len(types) + 1 - i]]

\* captureAndUpload, lines 228-231: the configured kinds, or the default four.
ProfileTypesOf(spec) ==
    IF Len(spec.profileTypes) = 0 THEN <<"heap", "cpu", "goroutine", "mutex">>
    ELSE spec.profileTypes

\* The monitor reaches its call of captureAndUpload: checkPodsThresholds with
\* the reason CheckThresholds returned, monitorOnDemand with "on-demand".
CaptureStart(w) ==
    LET spec == configs[CaptureConfig].spec
        started(reason) == [calls[w] EXCEPT !.pc = "forward", !.reason = reason,
                                            !.kinds = ProfileTypesOf(spec),
                                            !.late = CtxDone]
    IN  /\ w \in Callers /\ calls[w].pc = "idle"
        /\ IF w = "threshold"
           THEN /\ CanProfile(lastProfileTime, CapturePod, spec.cooldown, now)
                /\ CtxAllows(CtxDone, TRUE)
                /\ \E sample \in MetricSamples :
                      LET r == CheckThresholds(sample, spec.cpuThreshold,
                                               spec.memThreshold)
                      IN  /\ r.exceeded
                          /\ calls' = [calls EXCEPT ![w] = started(r.reason)]
           ELSE calls' = [calls EXCEPT ![w] = started("on-demand")]
        /\ UNCHANGED <<configs, lastProfileTime, resourceVersion>>
        /\ CaptureFrame

Failed(call, err) == [call EXCEPT !.pc = "return", !.err = err]

\* Variant of CaptureProfiles without the deferred close.
deferCloseNever(call) == call

\* CaptureProfiles, line 495: defer close(stopChan), run at every return that
\* follows it.
deferClose(call) == [call EXCEPT !.closes = @ + 1]

\* How setupPortForward can go: an error before the tunnel is started
\* (RoundTripperFor, portforward.New), "no-tunnel"; the tunnel never becomes
\* ready, "never-ready"; ready but GetPorts fails, "get-ports-failed", or
\* yields no port, "no-ports"; ready with a local port, "forwarding".
setupPortForward(call, outcome) ==
    IF outcome = "no-tunnel" THEN Failed(call, "failed to capture profiles")
    ELSE IF outcome = "never-ready"
    THEN [call EXCEPT !.pc = "blocked", !.tunnel = TRUE]
    ELSE IF outcome \in {"get-ports-failed", "no-ports"}
    THEN [Failed(call, "failed to capture profiles")
             EXCEPT !.tunnel = TRUE, !.closes = @ + 1]
    ELSE [call EXCEPT !.pc = "select", !.tunnel = TRUE]

\* CaptureProfiles, lines 491-494.
PortForward(w, outcome) ==
    /\ w \in Callers /\ calls[w].pc = "forward"
    /\ calls' = [calls EXCEPT ![w] = setupPortForward(@, outcome)]
    /\ UNCHANGED <<configs, lastProfileTime, resourceVersion>>
    /\ CaptureFrame

\* CaptureProfiles, lines 497-505: readyChan is closed by now, so the select
\* can take that case at once, and the case of ctx.Done() if the context is
\* cancelled; the 10 s timer has only just been started.
WaitReady(w, ready) ==
    /\ w \in Callers /\ calls[w].pc = "select"
    /\ ~ready => CtxDone
    /\ calls' = [calls EXCEPT ![w] =
                    IF ready THEN [@ EXCEPT !.pc = "fetch"]
                    ELSE deferClose(Failed(@, "failed to capture profiles"))]
    /\ UNCHANGED <<configs, lastProfileTime, resourceVersion>>
    /\ CaptureFrame

\* Variant that skips a kind whose GET failed and goes on with the others.
captureProfileSkip(call, status) ==
    LET last == Len(call.kinds) = 1
    IN  IF status = HTTPStatusOK
        THEN [call EXCEPT !.profiles = Append(@, Head(call.kinds)),
                          !.kinds = Tail(@),
                          !.pc = IF last THEN "uploader" ELSE "fetch"]
        ELSE [call EXCEPT !.getFailed = TRUE,
                          !.kinds = Tail(@),
                          !.pc = IF last THEN "uploader" ELSE "fetch"]

\* One round of the loop of CaptureProfiles (lines 508-515) around
\* captureProfile: the profile is appended, or the whole call returns
\* (nil, err) and captureAndUpload returns the error.
captureProfile(call, status) ==
    IF status = HTTPStatusOK
    THEN LET got == [call EXCEPT !.profiles = Append(@, Head(call.kinds)),
                                 !.kinds = Tail(@)]
         IN  IF Len(call.kinds) = 1 THEN deferClose([got EXCEPT !.pc = "uploader"])
             ELSE got
    ELSE deferClose([Failed(call, "failed to capture profiles")
                        EXCEPT !.getFailed = TRUE, !.profiles = <<>>])

Fetch(w, status) ==
    /\ w \in Callers /\ calls[w].pc = "fetch"
    /\ CtxAllows(CtxDone, status = HTTPStatusOK)
    /\ calls' = [calls EXCEPT ![w] = captureProfile(@, status)]
    /\ UNCHANGED <<configs, lastProfileTime, resourceVersion>>
    /\ CaptureFrame

\* captureAndUpload, lines 240-249.
NewS3Uploader(w, ok) ==
    /\ w \in Callers /\ calls[w].pc = "uploader"
    /\ calls' = [calls EXCEPT ![w] =
                    IF ok THEN [@ EXCEPT !.pc = "upload",
                                         !.toPut = calls[w].profiles]
                    ELSE Failed(@, "failed to create S3 uploader")]
    /\ UNCHANGED <<configs, lastProfileTime, resourceVersion>>
    /\ CaptureFrame

\* Variant that goes on with the next profile after a failed PUT.
UploadProfileContinue(call, ok) ==
    LET last == Len(call.toPut) = 1
    IN  IF ok
        THEN [call EXCEPT !.uploaded = Append(@, [kind |-> Head(call.toPut),
                                                  reason |-> call.reason]),
                          !.toPut = Tail(@),
                          !.pc = IF last THEN "return" ELSE "upload"]
        ELSE [call EXCEPT !.putFailed = TRUE,
                          !.toPut = Tail(@),
                          !.pc = IF last THEN "return" ELSE "upload"]

\* One round of the loop of UploadProfiles around UploadProfile: the PUT
\* carries the reason as metadata; the first failure ends the loop.
UploadProfile(call, ok) ==
    IF ok
    THEN [call EXCEPT !.uploaded = Append(@, [kind |-> Head(call.toPut),
                                              reason |-> call.reason]),
                      !.toPut = Tail(@),
                      !.pc = IF Len(call.toPut) = 1 THEN "return" ELSE "upload"]
    ELSE [Failed(call, "failed to upload profiles") EXCEPT !.putFailed = TRUE]

Put(w, ok) ==
    /\ w \in Callers /\ calls[w].pc = "upload"
    /\ CtxAllows(CtxDone, ok)
    /\ calls' = [calls EXCEPT ![w] = UploadProfile(@, ok)]
    /\ UNCHANGED <<configs, lastProfileTime, resourceVersion>>
    /\ CaptureFrame

\* captureAndUpload has returned to the monitor: on an error it only logs; on
\* success checkPodsThresholds calls UpdateLastProfileTime, and both monitors
\* call updateProfileStats, which starts with a Get of the object.
CaptureReturn(w) ==
    /\ w \in Callers /\ calls[w].pc = "return"
    /\ IF calls[w].err # ""
       THEN /\ calls' = [calls EXCEPT ![w].pc = "done"]
            /\ UNCHANGED lastProfileTime
       ELSE /\ calls' = [calls EXCEPT ![w] =
                            [@ EXCEPT !.pc = "stats",
                                      !.marked = (w = "threshold"),
                                      !.latest = configs[CaptureConfig].status,
                                      !.rv = resourceVersion]]
            /\ lastProfileTime' =
                  IF w = "threshold"
                  THEN UpdateLastProfileTime(lastProfileTime, CapturePod, now)
                  ELSE lastProfileTime
    /\ UNCHANGED <<configs, resourceVersion>>
    /\ CaptureFrame

\* Status().Update: the API server accepts the write only if the object has
\* not changed since it was read; a conflict, or the error of a cancelled
\* monitor context, is logged and dropped.
StatusUpdate(w, status) ==
    IF calls[w].rv = resourceVersion /\ (w \in Callers => CtxAllows(CtxDone, TRUE))
    THEN /\ configs' = [configs EXCEPT ![CaptureConfig].status = status]
         /\ resourceVersion' = resourceVersion + 1
         /\ calls' = [calls EXCEPT ![w].pc = "done", ![w].counted = TRUE]
    ELSE /\ calls' = [calls EXCEPT ![w].pc = "done"]
         /\ UNCHANGED <<configs, resourceVersion>>

\* updateProfileStats, lines 266-274.
StatsUpdate(w) ==
    /\ w \in Callers /\ calls[w].pc = "stats"
    /\ StatusUpdate(w, ProfileStats(calls[w].latest, now))
    /\ UNCHANGED lastProfileTime
    /\ CaptureFrame

\* Reconcile, line 76: the Get whose object the status write will send.
ReconcileGet ==
    /\ calls["reconcile"].pc = "idle"
    /\ calls' = [calls EXCEPT !["reconcile"] =
                    [@ EXCEPT !.pc = "stats",
                              !.latest = configs[CaptureConfig].status,
                              !.rv = resourceVersion]]
    /\ UNCHANGED <<configs, lastProfileTime, resourceVersion>>
    /\ CaptureFrame

\* Reconcile, lines 106-110.
ReconcileStatusUpdate ==
    LET matched == ListMatchingPods(pods, CaptureConfig, configs[CaptureConfig].spec)
    IN  /\ calls["reconcile"].pc = "stats"
        /\ StatusUpdate("reconcile",
              [calls["reconcile"].latest EXCEPT !.activePods = Cardinality(matched)])
        /\ UNCHANGED lastProfileTime
        /\ CaptureFrame

CaptureNext ==
    \/ \E w \in Callers : CaptureStart(w)
    \/ \E w \in Callers,
          outcome \in {"no-tunnel", "never-ready", "get-ports-failed", "no-ports",
                       "forwarding"} : PortForward(w, outcome)
    \/ \E w \in Callers, ready \in BOOLEAN : WaitReady(w, ready)
    \* What a pprof GET can come back with: a status code, or 0 for a failed
    \* request.
    \/ \E w \in Callers, status \in {HTTPStatusOK, 500, 0} : Fetch(w, status)
    \/ \E w \in Callers, ok \in BOOLEAN : NewS3Uploader(w, ok)
    \/ \E w \in Callers, ok \in BOOLEAN : Put(w, ok)
    \/ \E w \in Callers : CaptureReturn(w)
    \/ \E w \in Callers : StatsUpdate(w)
    \/ ReconcileGet
    \/ ReconcileStatusUpdate

CaptureSpec == CaptureInit /\ [][CaptureNext]_vars

\* ------------------------------------------- captures and stopMonitoring
\* The monitors of c1 run as generation CaptureGen, each with a tick pending,
\* and stopMonitoring can cancel their context at any point of their calls.
CancelInit ==
    /\ now = 0
    /\ configs \in {[c1 |-> Present(s), c2 |-> AbsentConfig] : s \in {SpecB, SpecTwoKinds}}
    /\ pods = [p1 |-> PodA, p2 |-> PodGone]
    /\ queue = {}
    /\ requeueAt = [c \in Configs |-> NoTime]
    /\ lastResult = [c \in Configs |-> NoResult]
    /\ trackedPods = [p \in Pods |-> IF p = CapturePod THEN CaptureConfig ELSE NoKey]
    /\ lastProfileTime = [p \in Pods |-> NoTime]
    /\ activeMonitors = [c \in Configs |-> IF c = CaptureConfig THEN CaptureGen ELSE NoGen]
    /\ monitors = [g \in Gens |->
                     IF g = CaptureGen
                     THEN [key |-> CaptureConfig, spec |-> configs[CaptureConfig].spec,
                           cancelled |-> FALSE,
                           thr |-> [NoGoroutine EXCEPT !.pc = "wait"],
                           od |-> [NoGoroutine EXCEPT !.pc = "wait"]]
                     ELSE FreeSlot]
    /\ lastSuccess = [pc \in Pods \X Configs |-> NoTime]
    /\ envChanges = 0
    /\ cycles = [c \in Configs |-> NoCycles]
    /\ calls = [w \in Writers |-> IdleCall]
    /\ resourceVersion = 1
    /\ mu = FreeMutex
    /\ procs = [pr \in Procs |-> IdleProc]
    /\ probe = NoProbe

\* stopMonitoring(CaptureConfig): cancel() of the generation's context.
Cancel ==
    LET ms == stopMonitoring(MonitorState(activeMonitors, monitors), CaptureConfig)
    IN  /\ activeMonitors[CaptureConfig] # NoGen
        /\ activeMonitors' = ms.am
        /\ monitors' = ms.mons
        /\ UNCHANGED <<now, configs, pods, queue, requeueAt, lastResult, trackedPods,
                       lastProfileTime, lastSuccess, envChanges, cycles, auxVars>>

CancelNext ==
    \/ CaptureNext
    \/ Cancel

CancelSpec == CancelInit /\ [][CancelNext]_vars

\* ============================================ PodWatcher under its RWMutex
\* Three goroutines each call one method of the same PodWatcher; the methods
\* run statement by statement, so that the only thing keeping them apart is
\* the mutex.
RegistryOps ==
    {[name |-> "TrackPod", pod |-> p, config |-> c] : p \in Pods, c \in Configs}
    \cup {[name |-> "StopTrackingPod", pod |-> p, config |-> NoKey] : p \in Pods}
    \cup {[NoOp EXCEPT !.name = "GetTrackedPods"],
          [NoOp EXCEPT !.name = "GetActivePodCount"]}

\* TrackPod, StopTrackingPod and UpdateLastProfileTime take Lock, the two
\* getters take RLock.
Exclusive(op) == op.name \in {"TrackPod", "StopTrackingPod", "UpdateLastProfileTime"}

\* The registry the goroutines start from: p1 tracked for c1 and profiled at
\* time 10, p2 not tracked.
RegistryAtStart ==
    [tracked |-> [p \in Pods |-> IF p = "p1" THEN "c1" ELSE NoKey],
     lpt |-> [p \in Pods |-> IF p = "p1" THEN 10 ELSE NoTime]]

RegistryInit ==
    /\ now = 0
    /\ configs = [c1 |-> Present(SpecB), c2 |-> Present(SpecB)]
    /\ pods = [p1 |-> PodA, p2 |-> PodA]
    /\ queue = {}
    /\ requeueAt = [c \in Configs |-> NoTime]
    /\ lastResult = [c \in Configs |-> NoResult]
    /\ trackedPods = RegistryAtStart.tracked
    /\ lastProfileTime = RegistryAtStart.lpt
    /\ activeMonitors = [c \in Configs |-> NoGen]
    /\ monitors = [g \in Gens |-> FreeSlot]
    /\ lastSuccess = [pc \in Pods \X Configs |-> NoTime]
    /\ envChanges = 0
    /\ cycles = [c \in Configs |-> NoCycles]
    /\ calls = [w \in Writers |-> IdleCall]
    /\ resourceVersion = 1
    /\ mu = FreeMutex
    /\ procs \in [Procs -> {[IdleProc EXCEPT !.op = op, !.pc = "start"] :
                               op \in RegistryOps}]
    /\ probe = NoProbe

RegistryFrame == UNCHANGED <<now, configs, pods, queue, requeueAt, lastResult,
                             activeMonitors, monitors, lastSuccess, envChanges,
                             cycles, calls, resourceVersion, probe>>

\* Variant of the mutex that never makes anybody wait.
CanAcquireAlways(m, exclusive) == TRUE

\* sync.RWMutex: Lock waits for the writer and all readers to be gone, RLock
\* waits for the writer to be gone.
CanAcquire(m, exclusive) ==
    /\ m.writer = NoProc
    /\ exclusive => m.readers = {}

\* pw.mu.Lock() / pw.mu.RLock(), the first statement of every method.
Acquire(pr) ==
    /\ procs[pr].pc = "start"
    /\ CanAcquire(mu, Exclusive(procs[pr].op))
    /\ mu' = IF Exclusive(procs[pr].op) THEN [mu EXCEPT !.writer = pr]
             ELSE [mu EXCEPT !.readers = @ \cup {pr}]
    /\ procs' = [procs EXCEPT ![pr].pc = "locked"]
    /\ UNCHANGED <<trackedPods, lastProfileTime>>
    /\ RegistryFrame

\* TrackPod lines 96-101, StopTrackingPod lines 116-119: the lookup of the key.
Lookup(pr) ==
    LET op == procs[pr].op
    IN  /\ procs[pr].pc = "locked" /\ op.name \in {"TrackPod", "StopTrackingPod"}
        /\ procs' = [procs EXCEPT ![pr].pc =
                        IF trackedPods[op.pod] # NoKey THEN "delete"
                        ELSE IF op.name = "TrackPod" THEN "store" ELSE "unlock"]
        /\ UNCHANGED <<trackedPods, lastProfileTime, mu>>
        /\ RegistryFrame

\* stopTrackingLocked, called by TrackPod and by StopTrackingPod.
StopTracking(pr) ==
    LET op == procs[pr].op
        reg == stopTrackingLocked([tracked |-> trackedPods, lpt |-> lastProfileTime],
                                  op.pod)
    IN  /\ procs[pr].pc = "delete"
        /\ trackedPods' = reg.tracked
        /\ lastProfileTime' = reg.lpt
        /\ procs' = [procs EXCEPT ![pr].pc =
                        IF op.name = "TrackPod" THEN "store" ELSE "unlock"]
        /\ UNCHANGED mu
        /\ RegistryFrame

\* TrackPod lines 103-108: a new TrackedPod is stored under the key.
Store(pr) ==
    /\ procs[pr].pc = "store"
    /\ trackedPods' = [trackedPods EXCEPT ![procs[pr].op.pod] = procs[pr].op.config]
    /\ procs' = [procs EXCEPT ![pr].pc = "unlock"]
    /\ UNCHANGED <<lastProfileTime, mu>>
    /\ RegistryFrame

\* GetTrackedPods lines 139-140: make the slice and start ranging over the map.
Range(pr) ==
    /\ procs[pr].pc = "locked" /\ procs[pr].op.name = "GetTrackedPods"
    /\ procs' = [procs EXCEPT ![pr].pc = "iterate",
                              ![pr].todo = GetTrackedPods(trackedPods),
                              ![pr].slice = {}]
    /\ UNCHANGED <<trackedPods, lastProfileTime, mu>>
    /\ RegistryFrame

\* GetTrackedPods lines 140-144: one round of the range loop (a key deleted
\* before the loop reaches it is not produced), or its end and the return.
Iterate(pr) ==
    /\ procs[pr].pc = "iterate"
    /\ IF procs[pr].todo = {}
       THEN procs' = [procs EXCEPT ![pr].pc = "unlock",
                                   ![pr].result = procs[pr].slice]
       ELSE \E k \in procs[pr].todo :
               procs' = [procs EXCEPT
                   ![pr].todo = @ \ {k},
                   ![pr].slice = IF trackedPods[k] # NoKey
                                 THEN @ \cup {<<k, trackedPods[k]>>} ELSE @]
    /\ UNCHANGED <<trackedPods, lastProfileTime, mu>>
    /\ RegistryFrame

\* GetActivePodCount line 180.
CountTracked(pr) ==
    /\ procs[pr].pc = "locked" /\ procs[pr].op.name = "GetActivePodCount"
    /\ procs' = [procs EXCEPT ![pr].pc = "unlock",
                              ![pr].result = GetActivePodCount(trackedPods)]
    /\ UNCHANGED <<trackedPods, lastProfileTime, mu>>
    /\ RegistryFrame

\* The deferred pw.mu.Unlock() / pw.mu.RUnlock().
Release(pr) ==
    /\ procs[pr].pc = "unlock"
    /\ mu' = IF Exclusive(procs[pr].op) THEN [mu EXCEPT !.writer = NoProc]
             ELSE [mu EXCEPT !.readers = @ \ {pr}]
    /\ procs' = [procs EXCEPT ![pr].pc = "done"]
    /\ UNCHANGED <<trackedPods, lastProfileTime>>
    /\ RegistryFrame

RegistryNext ==
    \E pr \in Procs :
        \/ Acquire(pr)
        \/ Lookup(pr)
        \/ StopTracking(pr)
        \/ Store(pr)
        \/ Range(pr)
        \/ Iterate(pr)
        \/ CountTracked(pr)
        \/ Release(pr)

RegistrySpec == RegistryInit /\ [][RegistryNext]_vars

\* A monitor among the callers: goroutine g1 runs checkPodsThresholds, which
\* takes its snapshot with GetTrackedPods and, after a successful capture of
\* a pod of the snapshot, calls UpdateLastProfileTime for it; the other
\* goroutines call any method of the PodWatcher.
SnapshotInit ==
    /\ now = 20
    /\ configs = [c1 |-> Present(SpecB), c2 |-> Present(SpecB)]
    /\ pods = [p1 |-> PodA, p2 |-> PodA]
    /\ queue = {}
    /\ requeueAt = [c \in Configs |-> NoTime]
    /\ lastResult = [c \in Configs |-> NoResult]
    /\ trackedPods = RegistryAtStart.tracked
    /\ lastProfileTime = RegistryAtStart.lpt
    /\ activeMonitors = [c \in Configs |-> NoGen]
    /\ monitors = [g \in Gens |-> FreeSlot]
    /\ lastSuccess = [pc \in Pods \X Configs |-> NoTime]
    /\ envChanges = 0
    /\ cycles = [c \in Configs |-> NoCycles]
    /\ calls = [w \in Writers |-> IdleCall]
    /\ resourceVersion = 1
    /\ mu = FreeMutex
    /\ procs \in {f \in [Procs -> {[IdleProc EXCEPT !.op = op, !.pc = "start"] :
                                      op \in RegistryOps}] :
                      f["g1"].op.name = "GetTrackedPods"}
    /\ probe = NoProbe

\* checkPodsThresholds, lines 162-192: GetTrackedPods has returned the
\* snapshot, captureAndUpload has succeeded for pod p of it, and the
\* goroutine calls UpdateLastProfileTime(p).
Captured(pr, p) ==
    /\ pr = "g1"
    /\ procs[pr].pc = "done" /\ procs[pr].op.name = "GetTrackedPods"
    /\ \E entry \in procs[pr].result : entry[1] = p
    /\ procs' = [procs EXCEPT ![pr].pc = "start",
                              ![pr].op = [name |-> "UpdateLastProfileTime",
                                          pod |-> p, config |-> NoKey]]
    /\ UNCHANGED <<trackedPods, lastProfileTime, mu>>
    /\ RegistryFrame

\* UpdateLastProfileTime line 168: pw.lastProfileTime[key] = time.Now()
StoreTime(pr) ==
    /\ procs[pr].pc = "locked" /\ procs[pr].op.name = "UpdateLastProfileTime"
    /\ lastProfileTime' = UpdateLastProfileTime(lastProfileTime, procs[pr].op.pod, now)
    /\ procs' = [procs EXCEPT ![pr].pc = "unlock"]
    /\ UNCHANGED <<trackedPods, mu>>
    /\ RegistryFrame

SnapshotNext ==
    \/ RegistryNext
    \/ \E pr \in Procs, p \in Pods : Captured(pr, p)
    \/ \E pr \in Procs : StoreTime(pr)

SnapshotSpec == SnapshotInit /\ [][SnapshotNext]_vars

\* The methods run one after the other, each as a whole.
StopTrackingPod(reg, p) ==
    IF reg.tracked[p] # NoKey THEN stopTrackingLocked(reg, p) ELSE reg

Sequential(reg, op) ==
    IF op.name = "TrackPod"
    THEN [reg |-> TrackPod(reg, op.pod, op.config), result |-> NoReturn]
    ELSE IF op.name = "StopTrackingPod"
    THEN [reg |-> StopTrackingPod(reg, op.pod), result |-> NoReturn]
    ELSE IF op.name = "GetTrackedPods"
    THEN [reg |-> reg,
          result |-> {<<p, reg.tracked[p]>> : p \in GetTrackedPods(reg.tracked)}]
    ELSE [reg |-> reg, result |-> GetActivePodCount(reg.tracked)]

\* The orders in which the goroutines' calls can be lined up.
Orders == {o \in [1..Cardinality(Procs) -> Procs] : \A pr \in Procs : \E i \in DOMAIN o : o[i] = pr}

\* The registry and the results after the first n calls of order o.
RECURSIVE RunInOrder(_, _)
RunInOrder(o, n) ==
    IF n = 0 THEN [reg |-> RegistryAtStart, results |-> [pr \in Procs |-> NoReturn]]
    ELSE LET before == RunInOrder(o, n - 1)
             step == Sequential(before.reg, procs[o[n]].op)
         IN  [reg |-> step.reg,
              results |-> [before.results EXCEPT ![o[n]] = step.result]]

\* ===================================================== functions, one call
\* The functions of the operator that depend on their arguments only (and,
\* for the PodWatcher, on its maps), called once with arguments drawn from
\* small sets.
MaxClock == 4
MaxCooldown == 3

FunctionsInit ==
    /\ now = 0
    /\ configs = [c1 |-> Present(SpecB), c2 |-> AbsentConfig]
    /\ pods = [p1 |-> PodA, p2 |-> PodGone]
    /\ queue = {}
    /\ requeueAt = [c \in Configs |-> NoTime]
    /\ lastResult = [c \in Configs |-> NoResult]
    /\ trackedPods = [p \in Pods |-> NoKey]
    /\ lastProfileTime = [p \in Pods |-> NoTime]
    /\ activeMonitors = [c \in Configs |-> NoGen]
    /\ monitors = [g \in Gens |-> FreeSlot]
    /\ lastSuccess = [pc \in Pods \X Configs |-> NoTime]
    /\ envChanges = 0
    /\ cycles = [c \in Configs |-> NoCycles]
    /\ calls = [w \in Writers |-> IdleCall]
    /\ resourceVersion = 1
    /\ mu = FreeMutex
    /\ procs = [pr \in Procs |-> IdleProc]
    /\ probe = NoProbe

FunctionsFrame == UNCHANGED <<now, configs, pods, queue, requeueAt, lastResult,
                              trackedPods, lastProfileTime, activeMonitors,
                              monitors, lastSuccess, envChanges, cycles, calls,
                              resourceVersion, registryVars>>

\* CanProfile(pod, cooldown) at time t, with `last` recorded for the pod (or
\* nothing) and time 0 recorded for every other pod; and the same call right
\* after UpdateLastProfileTime(pod).
CallCanProfile(p, last, cooldown, t) ==
    LET lpt == [q \in Pods |-> IF q = p THEN last ELSE 0]
    IN  /\ probe = NoProbe
        /\ probe' = [fn |-> "CanProfile",
                     in |-> [pod |-> p, last |-> last, cooldown |-> cooldown, t |-> t],
                     out |-> [result |-> CanProfile(lpt, p, cooldown, t),
                              afterUpdate |->
                                  CanProfile(UpdateLastProfileTime(lpt, p, t),
                                             p, cooldown, t)]]
        /\ FunctionsFrame

CallCheckThresholds(m, cpuThreshold, memoryThreshold) ==
    /\ probe = NoProbe
    /\ probe' = [fn |-> "CheckThresholds",
                 in |-> [m |-> m, cpuThreshold |-> cpuThreshold,
                         memoryThreshold |-> memoryThreshold],
                 out |-> CheckThresholds(m, cpuThreshold, memoryThreshold)]
    /\ FunctionsFrame

CallListMatchingPods(podMap, c, spec) ==
    /\ probe = NoProbe
    /\ probe' = [fn |-> "ListMatchingPods",
                 in |-> [pods |-> podMap, config |-> c, spec |-> spec],
                 out |-> ListMatchingPods(podMap, c, spec)]
    /\ FunctionsFrame

\* ------------------------------------------------------------- S3Uploader
\* Names are sequences of characters, "" is <<>>.
\* The value of a label, <<>> when the pod does not carry it.
LabelValue(labels, key) ==
    IF \E l \in labels : l[1] = key
    THEN (CHOOSE l \in labels : l[1] = key)[2]
    ELSE <<>>

\* getServiceName, lines 151-163: the loop leaves lastDash at the last dash,
\* or at the last character when the name has no dash; the name is cut there
\* unless that is its first character.
ReplicaSetOwnerName(name) ==
    LET dashes == {i \in 1..Len(name) : name[i] = "-"}
        lastDash == IF dashes # {} THEN CHOOSE i \in dashes : \A j \in dashes : j <= i
                    ELSE Len(name)
    IN  IF lastDash > 1 THEN SubSeq(name, 1, lastDash - 1) ELSE name

\* getServiceName, lines 170-186: the name is cut at its last but one dash,
\* unless it has none or that dash is its first character.
PodNamePrefix(name) ==
    LET dashes == {i \in 1..Len(name) : name[i] = "-"}
        Largest(S) == CHOOSE i \in S : \A j \in S : j <= i
        lastDash == IF Cardinality(dashes) >= 2
                    THEN Largest(dashes \ {Largest(dashes)}) ELSE 0
    IN  IF lastDash > 1 THEN SubSeq(name, 1, lastDash - 1) ELSE name

getServiceName(pod) ==
    IF LabelValue(pod.labels, "app.kubernetes.io/name") # <<>>
    THEN LabelValue(pod.labels, "app.kubernetes.io/name")
    ELSE IF LabelValue(pod.labels, "app") # <<>>
    THEN LabelValue(pod.labels, "app")
    ELSE IF LabelValue(pod.labels, "k8s-app") # <<>>
    THEN LabelValue(pod.labels, "k8s-app")
    ELSE IF Len(pod.owners) > 0
    THEN IF pod.owners[1].kind = "ReplicaSet"
         THEN ReplicaSetOwnerName(pod.owners[1].name)
         ELSE pod.owners[1].name
    ELSE PodNamePrefix(pod.name)

CallGetServiceName(pod) ==
    /\ probe = NoProbe
    /\ probe' = [fn |-> "getServiceName", in |-> pod, out |-> getServiceName(pod)]
    /\ FunctionsFrame

\* One run of checkPodsThresholds, pod by pod.  A tick is the record of what
\* the run has done so far: the last-profile times, the pods whose metrics
\* were requested, the pods handed to captureAndUpload, and the number of
\* calls of updateProfileStats.
NewTick(lpt) == [lpt |-> lpt, sampled |-> <<>>, captured |-> <<>>, stats |-> 0]

\* Variant that goes on to the capture when the metrics request fails.
checkPodNoContinue(tick, p, spec, t, answer, captureOk) ==
    IF ~CanProfile(tick.lpt, p, spec.cooldown, t) THEN tick
    ELSE IF answer.ok
            /\ ~CheckThresholds(answer.m, spec.cpuThreshold, spec.memThreshold).exceeded
    THEN [tick EXCEPT !.sampled = Append(@, p)]
    ELSE IF ~captureOk
    THEN [tick EXCEPT !.sampled = Append(@, p), !.captured = Append(@, p)]
    ELSE [tick EXCEPT !.sampled = Append(@, p), !.captured = Append(@, p),
                      !.lpt = UpdateLastProfileTime(@, p, t),
                      !.stats = @ + 1]

\* checkPodsThresholds, lines 164-195: the body of the loop for pod p, with
\* the answer of GetPodMetrics and the outcome of captureAndUpload.
checkPod(tick, p, spec, t, answer, captureOk) ==
    IF ~CanProfile(tick.lpt, p, spec.cooldown, t) THEN tick
    ELSE IF ~answer.ok THEN [tick EXCEPT !.sampled = Append(@, p)]
    ELSE IF ~CheckThresholds(answer.m, spec.cpuThreshold, spec.memThreshold).exceeded
    THEN [tick EXCEPT !.sampled = Append(@, p)]
    ELSE IF ~captureOk
    THEN [tick EXCEPT !.sampled = Append(@, p), !.captured = Append(@, p)]
    ELSE [tick EXCEPT !.sampled = Append(@, p), !.captured = Append(@, p),
                      !.lpt = UpdateLastProfileTime(@, p, t),
                      !.stats = @ + 1]

\* checkPodsThresholds over the snapshot `todo`, in the order of the slice.
RECURSIVE checkPodsThresholds(_, _, _, _, _, _)
checkPodsThresholds(tick, todo, spec, t, answers, captures) ==
    IF todo = <<>> THEN tick
    ELSE checkPodsThresholds(
             checkPod(tick, Head(todo), spec, t, answers[Head(todo)],
                      captures[Head(todo)]),
             Tail(todo), spec, t, answers, captures)

\* Two consecutive ticks of the threshold monitor of a config with SpecA,
\* at times 100 and 100 + checkInterval, over the same snapshot; in the
\* second tick every capture succeeds.
CallCheckPodsThresholds(todo, lpt, answers, captures, answersNext) ==
    LET first == checkPodsThresholds(NewTick(lpt), todo, SpecA, 100, answers, captures)
        second == checkPodsThresholds(NewTick(first.lpt), todo, SpecA,
                                      100 + SpecA.checkInterval, answersNext,
                                      [p \in Pods |-> TRUE])
    IN  /\ probe = NoProbe
        /\ probe' = [fn |-> "checkPodsThresholds",
                     in |-> [todo |-> todo, lpt |-> lpt, answers |-> answers,
                             captures |-> captures, answersNext |-> answersNext],
                     out |-> <<first, second>>]
        /\ FunctionsFrame

\* Profiler.getProfileEndpoint: the switch over the profile type.
getProfileEndpoint(profileType) ==
    CASE profileType = "heap" -> "/debug/pprof/heap"
      [] profileType = "cpu" -> "/debug/pprof/profile?seconds=30"
      [] profileType = "goroutine" -> "/debug/pprof/goroutine"
      [] profileType = "mutex" -> "/debug/pprof/mutex"
      [] profileType = "block" -> "/debug/pprof/block"
      [] profileType = "threadcreate" -> "/debug/pprof/threadcreate"
      [] OTHER -> "/debug/pprof/" \o profileType

CallGetProfileEndpoint(profileType) ==
    /\ probe = NoProbe
    /\ probe' = [fn |-> "getProfileEndpoint", in |-> profileType,
                 out |-> getProfileEndpoint(profileType)]
    /\ FunctionsFrame

\* A container's Usage or Requests is a ResourceList: a set of pairs of a
\* resource name and a quantity (milli-cores for cpu, bytes for memory).
\* Total is the loop `if q, ok := list[name]; ok { total.Add(q) }` over the
\* containers.
RECURSIVE Total(_, _)
Total(containers, name) ==
    IF containers = <<>> THEN 0
    ELSE LET list == Head(containers)
             q == IF \E e \in list : e[1] = name
                  THEN (CHOOSE e \in list : e[1] = name)[2]
                  ELSE 0
         IN  q + Total(Tail(containers), name)

\* Variant that reports 100 percent when nothing is requested.
calculateMetricsFullWithoutRequest(podContainers, metricsContainers) ==
    LET totalCPUUsage == Total(metricsContainers, "cpu")
        totalMemoryUsage == Total(metricsContainers, "memory")
        totalCPURequest == Total(podContainers, "cpu")
        totalMemoryRequest == Total(podContainers, "memory")
    IN  [cpu |-> IF totalCPURequest # 0
                 THEN (totalCPUUsage * 100) \div totalCPURequest ELSE 100,
         mem |-> IF totalMemoryRequest # 0
                 THEN (totalMemoryUsage * 100) \div totalMemoryRequest ELSE 100,
         cpuUsage |-> totalCPUUsage,
         memoryUsage |-> totalMemoryUsage]

\* calculateMetrics: usage in percent of the summed requests, 0 when the
\* summed request is zero.  The quantities of the model make every quotient
\* a whole number.
calculateMetrics(podContainers, metricsContainers) ==
    LET totalCPUUsage == Total(metricsContainers, "cpu")
        totalMemoryUsage == Total(metricsContainers, "memory")
        totalCPURequest == Total(podContainers, "cpu")
        totalMemoryRequest == Total(podContainers, "memory")
    IN  [cpu |-> IF totalCPURequest # 0
                 THEN (totalCPUUsage * 100) \div totalCPURequest ELSE 0,
         mem |-> IF totalMemoryRequest # 0
                 THEN (totalMemoryUsage * 100) \div totalMemoryRequest ELSE 0,
         cpuUsage |-> totalCPUUsage,
         memoryUsage |-> totalMemoryUsage]

\* calculateMetrics, then CheckThresholds on its result, and the step of
\* checkPodsThresholds for a pod outside any cooldown with that result as
\* the answer of GetPodMetrics.
CallCalculateMetrics(podContainers, metricsContainers, cpuThreshold, memoryThreshold) ==
    LET m == calculateMetrics(podContainers, metricsContainers)
        spec == [SpecA EXCEPT !.cpuThreshold = cpuThreshold,
                              !.memThreshold = memoryThreshold]
    IN  /\ probe = NoProbe
        /\ probe' = [fn |-> "calculateMetrics",
                     in |-> [podContainers |-> podContainers,
                             metricsContainers |-> metricsContainers,
                             cpuThreshold |-> cpuThreshold,
                             memoryThreshold |-> memoryThreshold],
                     out |-> [metrics |-> m,
                              check |-> CheckThresholds(m, cpuThreshold,
                                                        memoryThreshold),
                              tick |-> checkPod(NewTick([p \in Pods |-> NoTime]),
                                                "p1", spec, 100,
                                                [ok |-> TRUE, m |-> m], TRUE)]]
        /\ FunctionsFrame

\* A path is a sequence of tokens: the separator "/" and path elements
\* (".", ".." or a name), never two elements in a row.
RECURSIVE Concat(_)
Concat(tokens) ==
    IF tokens = <<>> THEN "" ELSE Head(tokens) \o Concat(Tail(tokens))

\* Variant that prints a number without a leading zero.
Pad2NoZero(n) == ToString(n)

\* time.Format with "01", "02", "15", "04", "05": two digits.
Pad2(n) == IF n < 10 THEN "0" \o ToString(n) ELSE ToString(n)

\* A time.Time is an instant (seconds since 1970-01-01T00:00:00Z) together
\* with the offset in seconds of its location at that instant.  Civil is the
\* wall clock Format prints: date and time of day of the instant shifted by
\* the offset, in the proleptic Gregorian calendar.
Civil(t) ==
    LET local == t.unix + t.offset
        days == local \div 86400
        rem == local % 86400
        z == days + 719468
        era == z \div 146097
        doe == z - era * 146097
        yoe == (doe - doe \div 1460 + doe \div 36524 - doe \div 146096) \div 365
        doy == doe - (365 * yoe + yoe \div 4 - yoe \div 100)
        mp == (5 * doy + 2) \div 153
        month == IF mp < 10 THEN mp + 3 ELSE mp - 9
    IN  [year |-> yoe + era * 400 + (IF month <= 2 THEN 1 ELSE 0),
         month |-> month,
         day |-> doy - (153 * mp + 2) \div 5 + 1,
         hour |-> rem \div 3600,
         minute |-> (rem % 3600) \div 60,
         second |-> rem % 60]

\* filepath.Clean on the elements of a path, in order: "." is dropped, ".."
\* takes the element before it away (or is dropped at the root, or stays at
\* the start of a relative path).
RECURSIVE CleanElements(_, _, _)
CleanElements(elements, kept, rooted) ==
    IF elements = <<>> THEN kept
    ELSE LET e == Head(elements)
             next == IF e = "." THEN kept
                     ELSE IF e # ".." THEN Append(kept, e)
                     ELSE IF kept # <<>> /\ kept[Len(kept)] # ".."
                     THEN SubSeq(kept, 1, Len(kept) - 1)
                     ELSE IF rooted THEN kept
                     ELSE Append(kept, e)
         IN  CleanElements(Tail(elements), next, rooted)

\* The elements joined by single separators.
RECURSIVE Separated(_)
Separated(elements) ==
    IF elements = <<>> THEN <<>>
    ELSE IF Len(elements) = 1 THEN elements
    ELSE <<Head(elements), "/">> \o Separated(Tail(elements))

\* filepath.Clean: repeated and trailing separators go, "." and ".." are
\* resolved, and the empty result is ".".
Clean(path) ==
    LET rooted == path # <<>> /\ path[1] = "/"
        isElement(t) == t # "/"
        kept == CleanElements(SelectSeq(path, isElement), <<>>, rooted)
    IN  IF rooted THEN <<"/">> \o Separated(kept)
        ELSE IF kept = <<>> THEN <<".">>
        ELSE Separated(kept)

\* Variant that joins the empty parts as well.
filepathJoinKeepEmpty(parts) ==
    LET RECURSIVE glue(_)
        glue(ps) == IF Len(ps) = 1 THEN ps[1]
                    ELSE ps[1] \o <<"/">> \o glue(Tail(ps))
    IN  Clean(glue(parts))

\* filepath.Join: the empty parts are ignored, the others joined by the
\* separator, and the result is cleaned; no part at all gives "".
filepathJoin(parts) ==
    LET isPart(part) == part # <<>>
        used == SelectSeq(parts, isPart)
        RECURSIVE glue(_)
        glue(ps) == IF Len(ps) = 1 THEN ps[1]
                    ELSE ps[1] \o <<"/">> \o glue(Tail(ps))
    IN  IF used = <<>> THEN <<>> ELSE Clean(glue(used))

\* generateKey: Timestamp.Format("2006-01-02") is the date,
\* Timestamp.Format("20060102-150405") the timestamp of the file name.
generateKey(prefix, pod, profile) ==
    LET ts == Civil(profile.timestamp)
        date == ToString(ts.year) \o "-" \o Pad2(ts.month) \o "-" \o Pad2(ts.day)
        serviceName == Concat(getServiceName(pod))
        timestamp == ToString(ts.year) \o Pad2(ts.month) \o Pad2(ts.day) \o "-"
                        \o Pad2(ts.hour) \o Pad2(ts.minute) \o Pad2(ts.second)
        filename == timestamp \o "-" \o profile.type \o ".pprof"
    IN  Concat(filepathJoin(<<prefix, <<date>>, <<serviceName>>, <<filename>> >>))

\* 2024-01-15T12:30:45Z, 2024-12-31T23:59:59Z and 2025-02-01T00:00:00Z;
\* one second after the first; one hour after the first in a location one
\* hour behind (the clock set back at the end of summer time, or another
\* zone); 2024-01-15T01:11:05Z and 2024-01-15T11:01:05Z.
TimestampInputs ==
    {[unix |-> 1705321845, offset |-> 0],
     [unix |-> 1735689599, offset |-> 0],
     [unix |-> 1738368000, offset |-> 0],
     [unix |-> 1705321846, offset |-> 0],
     [unix |-> 1705325445, offset |-> -3600],
     [unix |-> 1705281065, offset |-> 0],
     [unix |-> 1705316465, offset |-> 0]}

KeyPodInputs ==
    {[labels |-> {<<"app", <<"w", "e", "b">> >>}, owners |-> <<>>, name |-> <<"w">>],
     [labels |-> {<<"app", <<"w", "e", "b">> >>}, owners |-> <<>>,
      name |-> <<"w", "-", "x", "-", "y">>],
     [labels |-> {}, owners |-> <<>>, name |-> <<"w", "-", "x", "-", "y">>]}

CallGenerateKey(prefix, pod, profile) ==
    /\ probe = NoProbe
    /\ probe' = [fn |-> "generateKey",
                 in |-> [prefix |-> prefix, pod |-> pod, profile |-> profile],
                 out |-> generateKey(prefix, pod, profile)]
    /\ FunctionsFrame

\* Timestamp.Format(time.RFC3339), "2006-01-02T15:04:05Z07:00": the wall
\* clock of the time's location followed by Z for offset zero and by the
\* signed offset in hours and minutes otherwise.
FormatRFC3339(t) ==
    LET ts == Civil(t)
        abs == IF t.offset < 0 THEN 0 - t.offset ELSE t.offset
        zone == IF t.offset = 0 THEN "Z"
                ELSE (IF t.offset < 0 THEN "-" ELSE "+")
                        \o Pad2(abs \div 3600) \o ":" \o Pad2((abs % 3600) \div 60)
    IN  ToString(ts.year) \o "-" \o Pad2(ts.month) \o "-" \o Pad2(ts.day) \o "T"
            \o Pad2(ts.hour) \o ":" \o Pad2(ts.minute) \o ":" \o Pad2(ts.second)
            \o zone

\* Variant that attaches the five fixed entries only.
PutObjectInputNoLabels(prefix, bucket, pod, profile, reason) ==
    [Bucket |-> bucket,
     Key |-> generateKey(prefix, pod, profile),
     ContentType |-> "application/octet-stream",
     Metadata |-> [k \in {"pod-name", "pod-namespace", "profile-type", "reason",
                          "timestamp"} |->
                     CASE k = "pod-name" -> Concat(pod.name)
                       [] k = "pod-namespace" -> pod.namespace
                       [] k = "profile-type" -> profile.type
                       [] k = "reason" -> reason
                       [] k = "timestamp" -> FormatRFC3339(profile.timestamp)]]

\* UploadProfile, lines 62-88: the input of the PutObject call.  The
\* metadata map gets the five fixed entries and then one entry per pod
\* label, written after them.
PutObjectInput(prefix, bucket, pod, profile, reason) ==
    LET fixed == {"pod-name", "pod-namespace", "profile-type", "reason", "timestamp"}
        safeKey(l) == "pod-label-" \o l[1]
        labelKeys == {safeKey(l) : l \in pod.labels}
    IN  [Bucket |-> bucket,
         Key |-> generateKey(prefix, pod, profile),
         ContentType |-> "application/octet-stream",
         Metadata |-> [k \in fixed \cup labelKeys |->
                         IF k \in labelKeys
                         THEN Concat((CHOOSE l \in pod.labels : safeKey(l) = k)[2])
                         ELSE CASE k = "pod-name" -> Concat(pod.name)
                                [] k = "pod-namespace" -> pod.namespace
                                [] k = "profile-type" -> profile.type
                                [] k = "reason" -> reason
                                [] k = "timestamp" -> FormatRFC3339(profile.timestamp)]]

CallUploadProfile(prefix, pod, profile, reason) ==
    /\ probe = NoProbe
    /\ probe' = [fn |-> "UploadProfile",
                 in |-> [prefix |-> prefix, pod |-> pod, profile |-> profile,
                         reason |-> reason],
                 out |-> PutObjectInput(prefix, "bucket", pod, profile, reason)]
    /\ FunctionsFrame

\* generateKey called for two profiles of two pods by uploaders of the same
\* prefix.
CallGenerateKeyTwice(prefix, podA, profileA, podB, profileB) ==
    /\ probe = NoProbe
    /\ probe' = [fn |-> "generateKeyTwice",
                 in |-> [prefix |-> prefix, pods |-> <<podA, podB>>,
                         profiles |-> <<profileA, profileB>>],
                 out |-> <<generateKey(prefix, podA, profileA),
                           generateKey(prefix, podB, profileB)>>]
    /\ FunctionsFrame

\* The PodWatcher called from one goroutine, call after call, up to MaxOps
\* calls; the probe keeps the calls made and the latest GetActivePodCount.
MaxOps == 3

CallPodWatcher(op) ==
    LET reg == Registry(trackedPods, lastProfileTime)
        after == IF op.name = "TrackPod" THEN TrackPod(reg, op.pod, op.config)
                 ELSE IF op.name = "StopTrackingPod" THEN StopTrackingPod(reg, op.pod)
                 ELSE [reg EXCEPT !.lpt = UpdateLastProfileTime(@, op.pod, now)]
        made == IF probe = NoProbe THEN <<>> ELSE probe.in
    IN  /\ probe.fn \in {"none", "PodWatcher"}
        /\ Len(made) < MaxOps
        /\ trackedPods' = after.tracked
        /\ lastProfileTime' = after.lpt
        /\ probe' = [fn |-> "PodWatcher", in |-> Append(made, op),
                     out |-> GetActivePodCount(after.tracked)]
        /\ UNCHANGED <<now, configs, pods, queue, requeueAt, lastResult,
                       activeMonitors, monitors, lastSuccess, envChanges, cycles,
                       calls, resourceVersion, registryVars>>

FunctionsNext ==
    \/ probe = NoProbe /\
       \E p \in Pods, last \in {NoTime} \cup 0..MaxClock, cooldown \in 0..MaxCooldown,
          t \in 0..MaxClock :
          /\ last <= t
          /\ CallCanProfile(p, last, cooldown, t)
    \/ probe = NoProbe /\
       \* Percentages around the thresholds.
       LET Percents == {0, 79, 80, 81, 89, 90, 91, 100}
           Thresholds == {0, 80, 90, 100}
       IN  \E cpu \in Percents, mem \in Percents, ct \in Thresholds, mt \in Thresholds :
              CallCheckThresholds([cpu |-> cpu, mem |-> mem], ct, mt)
    \/ probe = NoProbe /\
       \* The pods of the cluster, a running pod without the annotation and
       \* one with a second label; selectors with no namespace, the config's
       \* own and another one, and with no label, one and two.
       LET PodPlain == [PodA EXCEPT !.annotations = {}]
           PodTwoLabels == [PodA EXCEPT !.labels = {<<"app", "a">>, <<"tier", "web">>}]
           PodInputs == PodStates \cup {PodPlain, PodTwoLabels}
           SelectorInputs ==
               {[SpecA EXCEPT !.selNamespace = ns, !.selLabels = ls] :
                   ns \in {"", "default", "other"},
                   ls \in {{}, {<<"app", "a">>}, {<<"app", "a">>, <<"tier", "web">>}}}
       IN  \E podMap \in [Pods -> PodInputs], spec \in SelectorInputs :
              CallListMatchingPods(podMap, "c1", spec)
    \/ LET WatcherOps ==
               {[name |-> "TrackPod", pod |-> p, config |-> c] :
                   p \in Pods, c \in Configs}
               \cup {[name |-> n, pod |-> p, config |-> NoKey] :
                        n \in {"StopTrackingPod", "UpdateLastProfileTime"}, p \in Pods}
       IN  \E op \in WatcherOps : CallPodWatcher(op)
    \/ probe = NoProbe /\
       \* Names as Kubernetes accepts them: letters joined by single dashes.
       LET NameInputs == {<<"w">>, <<"w", "e", "b">>, <<"w", "-", "x">>,
                          <<"w", "-", "x", "-", "y">>,
                          <<"w", "-", "x", "-", "y", "-", "z">>}
           LabelInputs ==
               {n \cup a \cup k :
                   n \in {{}, {<<"app.kubernetes.io/name", <<>> >>},
                              {<<"app.kubernetes.io/name", <<"n">> >>}},
                   a \in {{}, {<<"app", <<>> >>}, {<<"app", <<"a">> >>}},
                   k \in {{}, {<<"k8s-app", <<>> >>}, {<<"k8s-app", <<"k">> >>}}}
           OwnerInputs ==
               {<<>>} \cup {<<[kind |-> kind, name |-> name]>> :
                               kind \in {"ReplicaSet", "StatefulSet"},
                               name \in NameInputs}
               \cup {<<[kind |-> "StatefulSet", name |-> <<"d", "b">>],
                        [kind |-> "ReplicaSet", name |-> <<"w", "-", "x">>]>>}
       IN  \E labels \in LabelInputs, owners \in OwnerInputs, name \in NameInputs :
              CallGetServiceName([labels |-> labels, owners |-> owners,
                                  name |-> name])
    \/ probe = NoProbe /\
       \* Prefixes a user may configure: none, a name, a name followed or
       \* preceded by the separator, two names, a doubled separator, ".."
       \* and ".".
       LET PrefixInputs ==
               {<<>>, <<"profiles">>, <<"profiles", "/">>, <<"/", "profiles">>,
                <<"team", "/", "profiles">>, <<"team", "/", "/", "profiles">>,
                <<"team", "/", "..", "/", "profiles">>, <<".">>}
       IN  \E prefix \in PrefixInputs, pod \in KeyPodInputs, ts \in TimestampInputs,
              type \in {"heap", "cpu"} :
              CallGenerateKey(prefix, pod, [type |-> type, timestamp |-> ts])
    \/ probe = NoProbe /\
       \* Snapshots of the registry in an order of the map iteration, and
       \* answers of GetPodMetrics: an error, or a sample.
       LET SnapshotInputs == {<<"p1">>, <<"p1", "p2">>, <<"p2", "p1">>}
           AnswerInputs ==
               {[ok |-> FALSE, m |-> [cpu |-> 0, mem |-> 0]]}
                   \cup {[ok |-> TRUE, m |-> m] : m \in MetricSamples}
       IN  \E todo \in SnapshotInputs, lpt \in [Pods -> {NoTime, 30, 90}],
              answers, answersNext \in [Pods -> AnswerInputs],
              captures \in [Pods -> BOOLEAN] :
              CallCheckPodsThresholds(todo, lpt, answers, captures, answersNext)
    \/ probe = NoProbe /\
       \* Requests and usage of one or two containers.
       LET requests == {{}, {<<"cpu", 0>>}, {<<"cpu", 100>>}, {<<"memory", 100>>},
                        {<<"cpu", 100>>, <<"memory", 100>>}}
           usages == {{}, {<<"cpu", 50>>, <<"memory", 100>>},
                      {<<"cpu", 200>>, <<"memory", 50>>}}
           RequestInputs == {<<l>> : l \in requests}
                               \cup {<<l, m>> : l \in requests, m \in requests}
           UsageInputs == {<<l>> : l \in usages}
                             \cup {<<l, m>> : l \in usages, m \in usages}
       IN  \E podContainers \in RequestInputs, metricsContainers \in UsageInputs,
              ct \in {0, 80, 100}, mt \in {0, 80, 100} :
              CallCalculateMetrics(podContainers, metricsContainers, ct, mt)
    \/ probe = NoProbe /\
       \* The kinds of the table, threadcreate in both spellings, and two
       \* others.
       \E profileType \in {"heap", "cpu", "goroutine", "mutex", "block",
                           "thread-create", "threadcreate", "allocs", ""} :
          CallGetProfileEndpoint(profileType)
    \/ probe = NoProbe /\
       \* Pods of two namespaces with no, one and two labels.
       LET UploadPodInputs ==
               {[labels |-> labels, owners |-> <<>>,
                 name |-> <<"w", "-", "x", "-", "y">>, namespace |-> namespace] :
                   labels \in {{}, {<<"app", <<"w", "e", "b">> >>},
                               {<<"app", <<"w", "e", "b">> >>,
                                <<"tier", <<"d", "b">> >>}},
                   namespace \in {"ns1", "ns2"}}
       IN  \E prefix \in {<<>>, <<"profiles">>}, pod \in UploadPodInputs,
              ts \in TimestampInputs, type \in {"heap", "cpu"},
              reason \in {"on-demand", "threshold-exceeded"} :
              CallUploadProfile(prefix, pod, [type |-> type, timestamp |-> ts],
                                reason)
    \/ probe = NoProbe /\
       \E prefix \in {<<>>, <<"profiles">>}, podA, podB \in KeyPodInputs,
          tsA, tsB \in TimestampInputs, typeA, typeB \in {"heap", "cpu"} :
          CallGenerateKeyTwice(prefix, podA, [type |-> typeA, timestamp |-> tsA],
                               podB, [type |-> typeB, timestamp |-> tsB])

FunctionsSpec == FunctionsInit /\ [][FunctionsNext]_vars

\* ================================================================= claims
ValidationErrors == {"s3 bucket is required", "s3 region is required"}

\* C1: once a threshold-driven capture of pod p for config c has succeeded at
\* time t, no further threshold-driven capture of p for c starts before
\* t + cooldown, whatever Reconcile runs come in between.
C1_CooldownSafety ==
    [][\A g \in Gens :
          (monitors'[g].thr.pc = "capture" /\ monitors'[g].thr # monitors[g].thr)
          => LET p == monitors'[g].thr.cur
                 c == monitors'[g].key
                 t == lastSuccess[<<p, c>>]
             IN  t = NoTime \/ now >= t + monitors'[g].spec.cooldown]_vars

\* C2: the last-profile time of a pod changes only when a threshold capture of
\* that pod succeeds (UpdateLastProfileTime); in particular a Reconcile, which
\* calls TrackPod on pods already tracked, leaves it unchanged.
C2_LastProfileTimeOnlyByCapture ==
    [][\A p \in Pods :
          lastProfileTime'[p] # lastProfileTime[p]
          => \E g \in Gens : /\ ThresholdCaptureEnd(g, TRUE)
                             /\ monitors[g].thr.cur = p
                             /\ lastProfileTime'[p] = now]_vars

\* C3: cooldown is per (pod, config): a pod selected by config c is in
\* cooldown for c only if c's own monitor captured it within c's cooldown.
C3_CooldownPerPair ==
    \A p \in Pods, c \in Configs :
        (/\ configs[c].exists
         /\ p \in ListMatchingPods(pods, c, configs[c].spec)
         /\ ~CanProfile(lastProfileTime, p, configs[c].spec.cooldown, now))
        => /\ lastSuccess[<<p, c>>] # NoTime
           /\ now - lastSuccess[<<p, c>>] <= configs[c].spec.cooldown

\* C4: the on-demand monitor neither consults nor updates cooldown: on a tick
\* it goes through every tracked pod, in cooldown or not, and none of its steps
\* changes lastProfileTime.
C4_OnDemandIgnoresCooldown ==
    [][\A g \in Gens :
          /\ OnDemandTick(g) =>
                /\ lastProfileTime' = lastProfileTime
                /\ LET snapshot == GetTrackedPods(trackedPods)
                       od == monitors'[g].od
                   IN  IF snapshot = {} THEN od.pc = "wait"
                       ELSE od.pc = "capture" /\ {od.cur} \cup od.todo = snapshot
          /\ (\E ok \in BOOLEAN : OnDemandCaptureEnd(g, ok)) =>
                /\ lastProfileTime' = lastProfileTime
                /\ LET rest == monitors[g].od.todo
                       od == monitors'[g].od
                   IN  IF rest = {} THEN od.pc = "wait"
                       ELSE od.pc = "capture" /\ {od.cur} \cup od.todo = rest]_vars

\* C4 witness: an on-demand capture is running for a pod that is inside the
\* cooldown of the config.
C4_Witness ==
    \E g \in Gens :
        /\ Live(g) /\ monitors[g].od.pc = "capture"
        /\ lastProfileTime[monitors[g].od.cur] # NoTime
        /\ ~CanProfile(lastProfileTime, monitors[g].od.cur,
                       monitors[g].spec.cooldown, now)

\* C5: a Reconcile that fetched a config with an empty bucket or an empty
\* region returns the validation error, writes no status, tracks no pod and
\* starts or stops no monitor.
C5_InvalidConfigRejected ==
    [][\A c \in Configs :
          (/\ Reconcile(c)
           /\ configs[c].exists
           /\ configs[c].spec.bucket = "" \/ configs[c].spec.region = ""
           /\ lastResult'[c].err # "api error")
          => /\ lastResult'[c] =
                   Result(IF configs[c].spec.bucket = "" THEN "s3 bucket is required"
                          ELSE "s3 region is required", 0)
             /\ UNCHANGED <<configs, trackedPods, lastProfileTime,
                            activeMonitors, monitors>>]_vars

\* C5 witness: a Reconcile has returned "s3 region is required" for a config
\* whose status is untouched and which has no monitor.
C5_Witness ==
    \E c \in Configs :
        /\ lastResult[c] = Result("s3 region is required", 0)
        /\ configs[c].exists /\ configs[c].status = ZeroStatus
        /\ activeMonitors[c] = NoGen
        /\ \A p \in Pods : trackedPods[p] # c

\* C6: while the latest Reconcile of a config failed validation, no
\* un-cancelled monitor of that config exists.
C6_RejectedNeverMonitored ==
    \A c \in Configs :
        (lastResult[c].ran /\ lastResult[c].err \in ValidationErrors)
        => \A g \in Gens : monitors[g].key = c => monitors[g].cancelled

\* C7: at most one un-cancelled generation of monitors exists per config, it is
\* the one activeMonitors holds the handle of, and it runs one threshold
\* monitor plus one on-demand monitor iff on-demand is enabled; a successful
\* Reconcile leaves exactly such a freshly started generation under the key.
C7_StartedExactlyOnce ==
    /\ [](\A c \in Configs :
            /\ Cardinality({g \in Gens : monitors[g].key = c
                                         /\ ~monitors[g].cancelled}) <= 1
            /\ \A g \in Gens :
                  (monitors[g].key = c /\ ~monitors[g].cancelled)
                  => /\ activeMonitors[c] = g
                     /\ monitors[g].thr.pc # "none"
                     /\ monitors[g].od.pc # "none" <=> onDemandOn(monitors[g].spec)
            /\ activeMonitors[c] # NoGen
                  => /\ monitors[activeMonitors[c]].key = c
                     /\ ~monitors[activeMonitors[c]].cancelled)
    /\ [][\A c \in Configs :
            (Reconcile(c) /\ lastResult'[c] = Result("", RequeueAfterSeconds))
            => LET g == activeMonitors'[c]
               IN  /\ g # NoGen
                   /\ monitors'[g].key = c /\ ~monitors'[g].cancelled
                   /\ monitors'[g].spec = configs[c].spec
                   /\ monitors'[g].thr.pc = "wait"
                   /\ monitors'[g].thr.next = now + configs[c].spec.checkInterval
                   /\ \A h \in Gens \ {g} :
                         monitors'[h].key = c => monitors'[h].cancelled]_vars

\* C7 witness: a config has been reconciled again while its previous
\* generation was still running: the old one is cancelled, the new one is live.
C7_Witness ==
    \E c \in Configs, g, h \in Gens :
        /\ g # h /\ activeMonitors[c] = g
        /\ lastResult[c] = Result("", RequeueAfterSeconds)
        /\ monitors[g].key = c /\ ~monitors[g].cancelled
        /\ monitors[h].key = c /\ monitors[h].cancelled

\* C8: Reconcile for a key whose config does not exist cancels the key's
\* monitors, removes the key from activeMonitors and returns success without
\* requeue; with no entry under the key it changes nothing.
C8_NotFoundStopsMonitoring ==
    [][\A c \in Configs :
          (Reconcile(c) /\ ~configs[c].exists /\ lastResult'[c].err # "api error")
          => /\ lastResult'[c] = Result("", 0)
             /\ activeMonitors'[c] = NoGen
             /\ \A g \in Gens :
                   monitors[g].key = c
                   => monitors'[g] = FreeSlot \/ monitors'[g].cancelled
             /\ activeMonitors[c] = NoGen
                   => UNCHANGED <<activeMonitors, monitors>>
             /\ UNCHANGED <<configs, trackedPods, lastProfileTime>>]_vars

\* C8 witness: a deleted config has been reconciled while its monitors were
\* running: the entry is gone and the generation is cancelled.
C8_Witness ==
    \E c \in Configs, g \in Gens :
        /\ ~configs[c].exists
        /\ lastResult[c] = Result("", 0)
        /\ activeMonitors[c] = NoGen
        /\ monitors[g].key = c /\ monitors[g].cancelled

\* C9: after a successful Reconcile of the only config, the registry holds
\* exactly the pods that currently match it: a pod tracked earlier that no
\* longer matches has been removed.
C9_StalePodsUntracked ==
    [][\A c \in Configs :
          (/\ Reconcile(c)
           /\ lastResult'[c] = Result("", RequeueAfterSeconds)
           /\ \A d \in Configs \ {c} : ~configs[d].exists)
          => GetTrackedPods(trackedPods')
                 = ListMatchingPods(pods, c, configs[c].spec)]_vars

\* C10: once a deleted config has been reconciled, no pod is tracked for it.
C10_DeletedConfigUntracked ==
    \A c \in Configs :
        (~configs[c].exists /\ lastResult[c] = Result("", 0))
        => \A p \in Pods : trackedPods[p] # c

\* The pods a config's selector asks for, written from the fields of the
\* objects: in the target namespace, carrying every label of the selector,
\* Running and opted in with the annotation value "true".
Profileable(c) ==
    {p \in Pods :
        /\ pods[p].exists
        /\ PodNamespace(p) = (IF configs[c].spec.selNamespace = ""
                              THEN ConfigNamespace(c)
                              ELSE configs[c].spec.selNamespace)
        /\ \A l \in configs[c].spec.selLabels : l \in pods[p].labels
        /\ pods[p].phase = "Running"
        /\ <<ProfilingEnabledAnnotation, "true">> \in pods[p].annotations}

\* C11 (as stated): after every successful Reconcile of a config,
\* status.activePods is the number of profileable pods the selector matches
\* and the result asks for a requeue after 30 s.
C11_ActivePodsAlwaysWritten ==
    [][\A c \in Configs :
          (Reconcile(c) /\ configs[c].exists /\ lastResult'[c].err = "")
          => /\ lastResult'[c].requeueAfter = RequeueAfterSeconds
             /\ configs'[c].status.activePods = Cardinality(Profileable(c))]_vars

\* C11 (amended): a successful Reconcile asks for a requeue after 30 s and
\* sets status.activePods to the number of profileable pods the selector
\* matches, unless its status update failed: the failure is only logged and
\* the status stays as it was.
C11_ActivePodsWrittenUnlessUpdateFails ==
    [][\A c \in Configs :
          (Reconcile(c) /\ configs[c].exists /\ lastResult'[c].err = "")
          => /\ lastResult'[c].requeueAfter = RequeueAfterSeconds
             /\ requeueAt'[c] # NoTime
             /\ requeueAt'[c] <= now + RequeueAfterSeconds
             /\ \/ configs' = configs
                \/ configs' = [configs EXCEPT ![c].status.activePods =
                                                  Cardinality(Profileable(c))]]_vars

\* C11 witness: a Reconcile has succeeded and written a count that differs
\* from the number of pods that exist: one pod is not profileable.
C11_Witness ==
    \E c \in Configs :
        /\ lastResult[c] = Result("", RequeueAfterSeconds)
        /\ configs[c].exists
        /\ configs[c].status.activePods = 1
        /\ Cardinality({p \in Pods : pods[p].exists}) = 2
        /\ \E p \in Pods : pods[p] = PodOptOut

\* C15: at most one capture is in flight per (pod, config) pair, across the
\* threshold monitor, the on-demand monitor and cancelled generations.
C15_OneCapturePerPair ==
    \A p \in Pods, c \in Configs :
        Cardinality({gk \in Gens \X {"thr", "od"} :
                        /\ monitors[gk[1]].key = c
                        /\ monitors[gk[1]][gk[2]].pc = "capture"
                        /\ monitors[gk[1]][gk[2]].cur = p}) <= 1

\* C12: a config with on-demand interval 35 s and one tracked pod, reconciled
\* every 30 s, has performed exactly 2 on-demand capture-and-publish cycles
\* once 75 s have passed (one at about 35 s, one at about 70 s).
C12_OnDemandCadence ==
    \A c \in Configs :
        (/\ configs[c].exists
         /\ onDemandOn(configs[c].spec)
         /\ configs[c].spec.onDemandInterval = 35
         /\ lastResult[c] = Result("", RequeueAfterSeconds)
         /\ GetActivePodCount(trackedPods) = 1
         /\ now >= 75 /\ now < 105)
        => cycles[c].onDemand = 2

\* C13: while a valid config stays active and is reconciled every 30 s, its
\* threshold monitor runs checkPodsThresholds every checkIntervalSeconds:
\* once more than one interval has passed since the config was first
\* reconciled, checkPodsThresholds has run for it.
C13_ThresholdMonitorRuns ==
    \A c \in Configs :
        (/\ configs[c].exists
         /\ configs[c].spec.bucket # "" /\ configs[c].spec.region # ""
         /\ lastResult[c] = Result("", RequeueAfterSeconds)
         /\ now > configs[c].spec.checkInterval)
        => cycles[c].checks >= 1

\* C20: after stopMonitoring has cancelled a generation, each of its
\* goroutines returns: one that has not returned yet is never stuck, it can
\* always take its next step.
C20_CancelledGoroutinesReturn ==
    \A g \in Gens :
        (Live(g) /\ monitors[g].cancelled)
        => /\ monitors[g].thr.pc \in {"none", "returned"}
              \/ ENABLED (\/ ThresholdReturn(g)
                          \/ ThresholdTick(g)
                          \/ \E ok \in BOOLEAN : ThresholdCaptureEnd(g, ok))
           /\ monitors[g].od.pc \in {"none", "returned"}
              \/ ENABLED (\/ OnDemandReturn(g)
                          \/ OnDemandTick(g)
                          \/ \E ok \in BOOLEAN : OnDemandCaptureEnd(g, ok))

\* C14: every PUT carries the reason "threshold-exceeded" when the threshold
\* monitor issued it and "on-demand" when the on-demand monitor issued it.
C14_ReasonIsOneOfTwo ==
    \A w \in Callers :
        \A i \in 1..Len(calls[w].uploaded) :
            calls[w].uploaded[i].reason =
                (IF w = "threshold" THEN "threshold-exceeded" ELSE "on-demand")

\* C17: acquisition is all-or-nothing: once a GET of a kind has failed, the
\* call ends with the capture error and no profiles, issues no PUT, and its
\* caller neither calls UpdateLastProfileTime nor writes the counters; a PUT
\* is issued only after every requested kind was acquired.
C17_AcquisitionAllOrNothing ==
    /\ \A w \in Callers :
          /\ calls[w].getFailed
                => /\ calls[w].pc \in {"return", "done"}
                   /\ calls[w].err = "failed to capture profiles"
                   /\ calls[w].profiles = <<>>
                   /\ calls[w].toPut = <<>> /\ calls[w].uploaded = <<>>
                   /\ ~calls[w].marked /\ ~calls[w].counted
          /\ calls[w].uploaded # <<>>
                => calls[w].profiles = ProfileTypesOf(configs[CaptureConfig].spec)
    /\ lastProfileTime[CapturePod] # NoTime <=> calls["threshold"].marked
    /\ configs[CaptureConfig].status.totalProfiles
          = Cardinality({w \in Callers : calls[w].counted})

\* C17 witness: a call whose first kinds were fetched and whose later GET
\* failed has returned to its monitor and been dealt with.
C17_Witness ==
    \E w \in Callers :
        /\ calls[w].getFailed /\ calls[w].pc = "done"
        /\ Len(calls[w].kinds) < Len(ProfileTypesOf(configs[CaptureConfig].spec))

\* C18: once a PUT has failed, no later profile of the batch is PUT, the call
\* ends with the upload error, and the caller neither calls
\* UpdateLastProfileTime nor writes the counters, so the pod can be captured
\* again at the next tick.
C18_UploadFailureAborts ==
    /\ [](\A w \in Callers :
            calls[w].putFailed
            => /\ calls[w].pc \in {"return", "done"}
               /\ calls[w].err = "failed to upload profiles"
               /\ calls[w].toPut # <<>>
               /\ [i \in 1..Len(calls[w].uploaded) |-> calls[w].uploaded[i].kind]
                     \o calls[w].toPut = calls[w].profiles
               /\ ~calls[w].marked /\ ~calls[w].counted
               /\ w = "threshold"
                     => CanProfile(lastProfileTime, CapturePod,
                                   configs[CaptureConfig].spec.cooldown, now))
    /\ [][\A w \in Callers :
            calls[w].putFailed
            => /\ calls'[w].uploaded = calls[w].uploaded
               /\ calls'[w].putFailed]_vars

\* C18 witness: the threshold monitor's batch failed after its first PUT, and
\* the monitor has gone on.
C18_Witness ==
    /\ calls["threshold"].putFailed
    /\ calls["threshold"].pc = "done"
    /\ Len(calls["threshold"].uploaded) >= 1

\* C19: when every capture-and-publish sequence and every status write has
\* finished, totalProfiles and totalUploads both equal the number of
\* sequences that succeeded.
C19_CountersEqualSuccesses ==
    (\A w \in Writers : calls[w].pc = "done")
    => LET succeeded == Cardinality({w \in Callers : calls[w].err = ""})
       IN  /\ configs[CaptureConfig].status.totalProfiles = succeeded
           /\ configs[CaptureConfig].status.totalUploads = succeeded

\* C16: whatever the interleaving of concurrent TrackPod, StopTrackingPod,
\* GetTrackedPods and GetActivePodCount calls, once they have all returned
\* the registry (both maps) and every returned value are those of the calls
\* run one after the other in some order; writers exclude everybody else
\* meanwhile, and a returned slice is not changed by anything that follows.
C16_RegistryOperationsAtomic ==
    /\ []((\A pr \in Procs : procs[pr].pc = "done")
          => \E o \in Orders :
                LET run == RunInOrder(o, Cardinality(Procs))
                IN  /\ run.reg = [tracked |-> trackedPods, lpt |-> lastProfileTime]
                    /\ \A pr \in Procs : run.results[pr] = procs[pr].result)
    /\ [](\A pr \in Procs :
            (procs[pr].pc \in {"locked", "delete", "store", "iterate", "unlock"}
             /\ Exclusive(procs[pr].op))
            => \A other \in Procs \ {pr} : procs[other].pc \in {"start", "done"})
    /\ [][\A pr \in Procs :
            procs[pr].pc = "done" => procs'[pr].result = procs[pr].result]_vars

\* C16 witness: a TrackPod of an already tracked pod, a StopTrackingPod and a
\* GetTrackedPods that returned a non-empty slice have all run against each
\* other and returned, and the registry differs from the one they started from.
C16_Witness ==
    /\ \A pr \in Procs : procs[pr].pc = "done"
    /\ \E a, b, c \in Procs :
          /\ procs[a].op.name = "TrackPod" /\ procs[a].op.pod = "p1"
          /\ procs[b].op.name = "StopTrackingPod"
          /\ procs[c].op.name = "GetTrackedPods" /\ procs[c].result # {}
    /\ trackedPods # RegistryAtStart.tracked

\* C21: a call of captureAndUpload that fails on a cancelled context leaves
\* the cooldown and the counters alone, and a tick that a monitor begins after
\* its context was cancelled ends in an error (the threshold monitor does not
\* even reach the call), with no UpdateLastProfileTime and no counter write.
C21_CancelledCaptureLeavesNoTrace ==
    \A w \in Callers :
        /\ (CtxDone /\ calls[w].err # "") => (~calls[w].marked /\ ~calls[w].counted)
        /\ calls[w].late
              => /\ w = "on-demand"
                 /\ ~calls[w].marked /\ ~calls[w].counted
                 /\ calls[w].uploaded = <<>>
                 /\ calls[w].pc = "done" => calls[w].err # ""

\* C21 witness: the on-demand monitor took a tick after the cancel and its
\* call has failed, and the threshold monitor's call, in flight at the cancel
\* with a profile already uploaded, has failed too.
C21_Witness ==
    /\ CtxDone
    /\ calls["on-demand"].late /\ calls["on-demand"].pc = "done"
    /\ calls["threshold"].pc = "done" /\ calls["threshold"].err # ""
    /\ Len(calls["threshold"].uploaded) >= 1

\* C22: the tunnel of a call is closed exactly once by the time
\* CaptureProfiles has returned, whatever the exit path; its stopChan is never
\* closed twice, and not closed while CaptureProfiles is still using it.
C22_TunnelClosedOnce ==
    \A w \in Callers :
        /\ calls[w].closes <= 1
        /\ ~calls[w].tunnel => calls[w].closes = 0
        /\ calls[w].pc \in {"blocked", "select", "fetch"}
              => (calls[w].tunnel /\ calls[w].closes = 0)
        /\ (calls[w].tunnel /\ calls[w].pc \in {"uploader", "upload", "return",
                                                  "stats", "done"})
              => calls[w].closes = 1

\* C22 witness: one call has returned from CaptureProfiles with its profiles
\* and another through the ctx.Done() case or a failed kind, both after
\* their tunnel was started.
C22_Witness ==
    \E w, x \in Callers :
        /\ calls[w].tunnel /\ calls[w].pc = "done" /\ calls[w].err = ""
        /\ calls[x].tunnel /\ calls[x].pc = "done" /\ calls[x].late

\* C23: a goroutine waiting for a port-forward that never becomes ready is
\* out of that wait at most 10 s after its call began.
C23_ReadinessWaitBounded ==
    \A g \in Gens :
        Live(g) =>
            \A gr \in {monitors[g].thr, monitors[g].od} :
                gr.pc = "blocked" => now - gr.since <= ReadyTimeoutSeconds

\* C24: within a call the kinds are fetched in the order of spec.profileTypes
\* (heap, cpu, goroutine, mutex when the list is empty), CaptureProfiles
\* returns them in that order, and the PUTs go out one by one in that order.
C24_KindOrderKept ==
    /\ [](LET configured == configs[CaptureConfig].spec.profileTypes
              wanted == IF configured = <<>>
                        THEN <<"heap", "cpu", "goroutine", "mutex">>
                        ELSE configured
              kindsOf(puts) == [i \in 1..Len(puts) |-> puts[i].kind]
          IN  \A w \in Callers :
                /\ (calls[w].pc # "idle" /\ ~calls[w].getFailed)
                      => calls[w].profiles \o calls[w].kinds = wanted
                /\ (calls[w].uploaded # <<>> \/ calls[w].toPut # <<>>)
                      => kindsOf(calls[w].uploaded) \o calls[w].toPut
                            = calls[w].profiles
                /\ kindsOf(calls[w].uploaded)
                      = SubSeq(wanted, 1, Len(calls[w].uploaded)))
    /\ [][\A w \in Callers :
            /\ Len(calls'[w].uploaded) <= Len(calls[w].uploaded) + 1
            /\ SubSeq(calls'[w].uploaded, 1, Len(calls[w].uploaded))
                  = calls[w].uploaded]_vars

\* C24 witness: with the kinds configured as cpu, heap, one call has
\* uploaded both, and the other has fetched cpu and is about to fetch heap.
C24_Witness ==
    /\ configs[CaptureConfig].spec.profileTypes = <<"cpu", "heap">>
    /\ \E w, x \in Callers :
          /\ calls[w].pc = "done" /\ Len(calls[w].uploaded) = 2
          /\ calls[x].pc = "fetch" /\ calls[x].profiles = <<"cpu">>

\* C25: CanProfile is true iff no last-profile time is recorded for the pod
\* or more than cooldown seconds have passed since it; at exactly cooldown
\* seconds it is false, and right after UpdateLastProfileTime it is false
\* for every cooldown of 1 s or more.
C25_CanProfileStrict ==
    probe.fn = "CanProfile"
    => /\ probe.out.result
            <=> (probe.in.last = NoTime
                 \/ probe.in.t - probe.in.last > probe.in.cooldown)
       /\ (probe.in.last # NoTime /\ probe.in.t - probe.in.last = probe.in.cooldown)
            => ~probe.out.result
       /\ probe.in.cooldown >= 1 => ~probe.out.afterUpdate

\* C25 witness: a call made exactly cooldown seconds after the recorded time.
C25_Witness ==
    /\ probe.fn = "CanProfile"
    /\ probe.in.last # NoTime /\ probe.in.cooldown >= 1
    /\ probe.in.t - probe.in.last = probe.in.cooldown
    /\ ~probe.out.result

\* C26: CheckThresholds reports exceeded iff the CPU percentage is above the
\* CPU threshold or the memory percentage above the memory threshold; a value
\* equal to its threshold does not exceed; when both exceed the reason is the
\* one of the CPU; when nothing exceeds the reason is empty.
C26_CheckThresholdsStrictCpuFirst ==
    probe.fn = "CheckThresholds"
    => LET cpuOver == probe.in.m.cpu > probe.in.cpuThreshold
           memOver == probe.in.m.mem > probe.in.memoryThreshold
       IN  /\ probe.out.exceeded <=> (cpuOver \/ memOver)
           /\ (probe.in.m.cpu = probe.in.cpuThreshold
                /\ probe.in.m.mem = probe.in.memoryThreshold) => ~probe.out.exceeded
           /\ cpuOver => SubSeq(probe.out.reason, 1, 9) = "CPU usage"
           /\ (memOver /\ ~cpuOver) => SubSeq(probe.out.reason, 1, 12) = "Memory usage"
           /\ ~probe.out.exceeded <=> probe.out.reason = ""

\* C26 witness: a sample above both thresholds.
C26_Witness ==
    /\ probe.fn = "CheckThresholds"
    /\ probe.in.m.cpu > probe.in.cpuThreshold
    /\ probe.in.m.mem > probe.in.memoryThreshold
    /\ probe.out.exceeded

C28_TrackReplacesAndCounts ==
    /\ [](probe.fn = "PodWatcher"
          => LET made == probe.in
                 on(p) == {i \in 1..Len(made) :
                              made[i].pod = p /\ made[i].name # "UpdateLastProfileTime"}
                 latest(p) == CHOOSE i \in on(p) : \A j \in on(p) : j <= i
                 live == {p \in Pods :
                             on(p) # {} /\ made[latest(p)].name = "TrackPod"}
             IN  /\ \A p \in live : trackedPods[p] = made[latest(p)].config
                 /\ \A p \in Pods \ live : trackedPods[p] = NoKey
                 /\ probe.out = Cardinality(live))
    /\ [][(/\ probe'.fn = "PodWatcher"
           /\ probe'.in[Len(probe'.in)].name = "StopTrackingPod"
           /\ trackedPods[probe'.in[Len(probe'.in)].pod] = NoKey)
          => (trackedPods' = trackedPods /\ lastProfileTime' = lastProfileTime)]_vars

\* C28 witness: p1 was tracked for c1 and then for c2, and then p2, which
\* was never tracked, was untracked.
C28_Witness ==
    /\ probe.fn = "PodWatcher"
    /\ Len(probe.in) = 3
    /\ probe.in[1] = [name |-> "TrackPod", pod |-> "p1", config |-> "c1"]
    /\ probe.in[2] = [name |-> "TrackPod", pod |-> "p1", config |-> "c2"]
    /\ probe.in[3].name = "StopTrackingPod" /\ probe.in[3].pod = "p2"
    /\ probe.out = 1

\* C29: getServiceName returns the first non-empty of: the label
\* app.kubernetes.io/name, the label app, the label k8s-app, the name of the
\* first owner reference (without its trailing "-<hash>" segment when the
\* owner is a ReplicaSet, as it is for any other kind), the pod name without
\* its last two dash-separated segments (as it is with fewer than two dashes).
C29_ServiceNameOrder ==
    probe.fn = "getServiceName"
    => LET pod == probe.in
           label(key) == IF \E l \in pod.labels : l[1] = key /\ l[2] # <<>>
                         THEN (CHOOSE l \in pod.labels : l[1] = key)[2] ELSE <<>>
           dashes(name) == {i \in 1..Len(name) : name[i] = "-"}
           nthLastDash(name, n) ==
               CHOOSE i \in dashes(name) :
                   Cardinality({j \in dashes(name) : j >= i}) = n
           owner == IF pod.owners = <<>> THEN <<>>
                    ELSE IF pod.owners[1].kind = "ReplicaSet"
                            /\ dashes(pod.owners[1].name) # {}
                    THEN SubSeq(pod.owners[1].name, 1,
                                nthLastDash(pod.owners[1].name, 1) - 1)
                    ELSE pod.owners[1].name
           fromName == IF Cardinality(dashes(pod.name)) >= 2
                       THEN SubSeq(pod.name, 1, nthLastDash(pod.name, 2) - 1)
                       ELSE pod.name
           candidates == <<label("app.kubernetes.io/name"), label("app"),
                           label("k8s-app"), owner, fromName>>
           first == CHOOSE i \in 1..5 :
                       /\ candidates[i] # <<>>
                       /\ \A j \in 1..(i - 1) : candidates[j] = <<>>
       IN  probe.out = candidates[first]

\* C30 as stated: the key is exactly prefix/date/service/stamp-kind.pprof,
\* and starts with the date when the prefix is empty.
C30_KeyIsPrefixDateServiceFile ==
    probe.fn = "generateKey"
    => LET ts == Civil(probe.in.profile.timestamp)
           two(n) == IF n < 10 THEN "0" \o ToString(n) ELSE ToString(n)
           date == ToString(ts.year) \o "-" \o two(ts.month) \o "-" \o two(ts.day)
           stamp == ToString(ts.year) \o two(ts.month) \o two(ts.day) \o "-"
                       \o two(ts.hour) \o two(ts.minute) \o two(ts.second)
           service == IF probe.in.pod.labels # {} THEN "web" ELSE "w"
           rest == date \o "/" \o service \o "/" \o stamp \o "-"
                       \o probe.in.profile.type \o ".pprof"
       IN  probe.out = IF probe.in.prefix = <<>> THEN rest
                       ELSE Concat(probe.in.prefix) \o "/" \o rest

\* C30, amended: for a prefix of names joined by single separators the key
\* is exactly prefix/date/service/stamp-kind.pprof; for an empty prefix it
\* starts with the date; a separator at the end of the prefix, or a doubled
\* one inside it, is not repeated in the key.
C30_KeyIsCleanedJoin ==
    probe.fn = "generateKey"
    => LET ts == Civil(probe.in.profile.timestamp)
           two(n) == IF n < 10 THEN "0" \o ToString(n) ELSE ToString(n)
           date == ToString(ts.year) \o "-" \o two(ts.month) \o "-" \o two(ts.day)
           stamp == ToString(ts.year) \o two(ts.month) \o two(ts.day) \o "-"
                       \o two(ts.hour) \o two(ts.minute) \o two(ts.second)
           service == IF probe.in.pod.labels # {} THEN "web" ELSE "w"
           rest == date \o "/" \o service \o "/" \o stamp \o "-"
                       \o probe.in.profile.type \o ".pprof"
           prefix == probe.in.prefix
       IN  /\ prefix = <<>> => probe.out = rest
           /\ prefix \in {<<"profiles">>, <<"/", "profiles">>, <<"team", "/", "profiles">>}
                => probe.out = Concat(prefix) \o "/" \o rest
           /\ prefix = <<"profiles", "/">> => probe.out = "profiles/" \o rest
           /\ prefix = <<"team", "/", "/", "profiles">>
                => probe.out = "team/profiles/" \o rest
           /\ prefix = <<"team", "/", "..", "/", "profiles">>
                => probe.out = "profiles/" \o rest
           /\ prefix = <<".">> => probe.out = rest

\* C30 witness: the key of a heap profile taken on 2024-01-15 at 12:30:45
\* for the service web under the prefix "profiles/".
C30_Witness ==
    /\ probe.fn = "generateKey"
    /\ probe.in.prefix = <<"profiles", "/">>
    /\ probe.out = "profiles/2024-01-15/web/20240115-123045-heap.pprof"

C33_OnlyConfigurationErrorsAbort ==
    [][\A c \in Configs :
          (/\ Reconcile(c)
           /\ configs[c].exists
           /\ validateConfig(configs[c].spec) = "")
          => lastResult'[c] = Result("", RequeueAfterSeconds)]_vars

\* C34: the first pod a tick of a monitor hands to captureAndUpload is a
\* pod whose registry entry is owned by the monitor's config.
C34_MonitorCapturesOwnPodsOnly ==
    [][\A g \in Gens, k \in {"thr", "od"} :
          (/\ ThresholdTick(g) \/ OnDemandTick(g)
           /\ monitors[g][k].pc = "wait"
           /\ monitors'[g][k].pc = "capture")
          => trackedPods[monitors'[g][k].cur] = monitors[g].key]_vars

\* C35: a pod whose metrics request fails in a threshold tick is not
\* captured in that tick, keeps its last-profile time and adds nothing to
\* the counters; the other pods of the snapshot that are out of their
\* cooldown are still sampled, and captured when above a threshold; and the
\* pod is sampled again in the next tick.
C35_MetricsFailureSkipsPodOnly ==
    probe.fn = "checkPodsThresholds"
    => LET in == probe.in
           first == probe.out[1]
           second == probe.out[2]
           inSeq(q, sq) == \E i \in 1..Len(sq) : sq[i] = q
           due(q) == in.lpt[q] = NoTime \/ 100 - in.lpt[q] > SpecA.cooldown
           above(q) == in.answers[q].ok /\ in.answers[q].m.cpu > SpecA.cpuThreshold
       IN  \A p \in Pods :
              (inSeq(p, in.todo) /\ due(p) /\ ~in.answers[p].ok)
              => /\ ~inSeq(p, first.captured)
                 /\ first.lpt[p] = in.lpt[p]
                 /\ first.stats =
                       Cardinality({q \in Pods \ {p} : inSeq(q, first.captured)
                                                        /\ in.captures[q]})
                 /\ \A q \in Pods \ {p} :
                       /\ (inSeq(q, in.todo) /\ due(q)) => inSeq(q, first.sampled)
                       /\ (inSeq(q, in.todo) /\ due(q) /\ above(q))
                            => inSeq(q, first.captured)
                 /\ inSeq(p, second.sampled)

\* C35 witness: the metrics request for p1, first in the snapshot, failed,
\* p2 after it was captured in the same tick, and p1 was sampled and
\* captured in the next tick.
C35_Witness ==
    /\ probe.fn = "checkPodsThresholds"
    /\ probe.in.todo = <<"p1", "p2">>
    /\ ~probe.in.answers["p1"].ok
    /\ probe.out[1].sampled = <<"p1", "p2">>
    /\ probe.out[1].captured = <<"p2">>
    /\ probe.out[1].stats = 1
    /\ probe.out[2].captured = <<"p1">>

\* C36: when the requests of a resource sum to zero over the pod's
\* containers, calculateMetrics reports 0 percent for it, CheckThresholds
\* with thresholds in 0..100 does not report that resource as exceeded, and
\* a pod without any cpu and memory request is not captured by the step of
\* the threshold monitor.
C36_ZeroRequestIsZeroPercent ==
    probe.fn = "calculateMetrics"
    => LET requested(name) ==
               \E i \in 1..Len(probe.in.podContainers) :
                  \E e \in probe.in.podContainers[i] : e[1] = name /\ e[2] > 0
           out == probe.out
       IN  /\ ~requested("cpu")
                => /\ out.metrics.cpu = 0
                   /\ out.check.exceeded => out.metrics.mem > probe.in.memoryThreshold
           /\ ~requested("memory")
                => /\ out.metrics.mem = 0
                   /\ out.check.exceeded => out.metrics.cpu > probe.in.cpuThreshold
           /\ (~requested("cpu") /\ ~requested("memory"))
                => /\ ~out.check.exceeded
                   /\ out.tick.captured = <<>>
                   /\ out.tick.stats = 0

\* C36 witness: a pod of two containers without requests used 250
\* milli-cores and 150 bytes, got 0 percent twice and was not captured with
\* both thresholds at 0.
C36_Witness ==
    /\ probe.fn = "calculateMetrics"
    /\ probe.in.podContainers = <<{}, {<<"cpu", 0>>}>>
    /\ probe.in.cpuThreshold = 0 /\ probe.in.memoryThreshold = 0
    /\ probe.out.metrics = [cpu |-> 0, mem |-> 0, cpuUsage |-> 250, memoryUsage |-> 150]
    /\ probe.out.tick.sampled = <<"p1">>
    /\ probe.out.tick.captured = <<>>

\* C37: heap, cpu, goroutine, mutex, block and thread-create map to
\* /debug/pprof/heap, /debug/pprof/profile?seconds=30,
\* /debug/pprof/goroutine, /debug/pprof/mutex, /debug/pprof/block and
\* /debug/pprof/threadcreate, and any other kind k to /debug/pprof/k.
C37_EndpointTable ==
    probe.fn = "getProfileEndpoint"
    => probe.out =
          CASE probe.in = "heap" -> "/debug/pprof/heap"
            [] probe.in = "cpu" -> "/debug/pprof/profile?seconds=30"
            [] probe.in = "goroutine" -> "/debug/pprof/goroutine"
            [] probe.in = "mutex" -> "/debug/pprof/mutex"
            [] probe.in = "block" -> "/debug/pprof/block"
            [] probe.in = "thread-create" -> "/debug/pprof/threadcreate"
            [] OTHER -> "/debug/pprof/" \o probe.in

\* C38: two uploads under the same prefix for different pods, or for
\* different profiles of one pod, get different object keys.
C38_DistinctUploadsDistinctKeys ==
    (/\ probe.fn = "generateKeyTwice"
     /\ \/ probe.in.pods[1] # probe.in.pods[2]
        \/ probe.in.profiles[1].type # probe.in.profiles[2].type
        \/ probe.in.profiles[1].timestamp.unix # probe.in.profiles[2].timestamp.unix)
    => probe.out[1] # probe.out[2]

\* C39: every pod key with a recorded last-profile time is a tracked key.
C39_LastProfileTimesAreOfTrackedPods ==
    \A p \in Pods : lastProfileTime[p] # NoTime => trackedPods[p] # NoKey

\* C40: for a pod named after its first owner, a ReplicaSet, getServiceName
\* returns the owner's name up to its last dash when it has a dash after its
\* first character, and the whole name when it has no dash; the result is
\* the whole name or ends right before a dash of it.
C40_ReplicaSetNameCutAtLastDash ==
    (/\ probe.fn = "getServiceName"
     /\ \A l \in probe.in.labels : l[2] = <<>>
     /\ probe.in.owners # <<>>
     /\ probe.in.owners[1].kind = "ReplicaSet")
    => LET name == probe.in.owners[1].name
           dashes == {i \in 1..Len(name) : name[i] = "-"}
           last == CHOOSE i \in dashes : \A j \in dashes : j <= i
       IN  /\ (dashes # {} /\ last > 1) => probe.out = SubSeq(name, 1, last - 1)
           /\ dashes = {} => probe.out = name
           /\ \/ probe.out = name
              \/ \E i \in dashes : probe.out = SubSeq(name, 1, i - 1)
====
